---------------------------- MODULE Spec2Model ----------------------------
(***************************************************************************)
(* Model of the completion-statistics pipeline of l10n-build-stats:        *)
(*   scripts/functions.py   parse_file, store_completion,                  *)
(*                          get_firefox_releases, update_git_repository,   *)
(*                          get_version_from_filename                      *)
(*   scripts/base_stats.py  StatsExtractor.run                             *)
(*   scripts/fenix_stats.py parseXMLFile, extractStringList, main          *)
(*   scripts/config.py      Config, get_config, read_config                *)
(*   scripts/functions.py   get_json_files                                 *)
(*   scripts/csv_extract_product.py  main                                  *)
(*   scripts/build_chart_json.py     async_main                            *)
(*   scripts/fxios_stats.py extract_strings,                               *)
(*                          compute_localization_completion                *)
(*                                                                         *)
(* Python strings that the code only compares and concatenates (string     *)
(* identifiers, locale codes, file keys) are TLA+ strings.  Python strings *)
(* that the code takes apart (version numbers, metadata values, file       *)
(* names) are sequences of one-character strings, so that split, replace   *)
(* and int are computed character by character.                            *)
(***************************************************************************)
EXTENDS Integers, Sequences, FiniteSets, TLC

VARIABLES
    string_list,  \* StringList: file key -> (locale -> list of identifiers)
    version,      \* the version the run was started with (--version)
    stats,        \* the stats directory: file name -> persisted completion
    pc,           \* position of the run: "extract", "stored", "failed"
    raised,       \* exception that left the last operation, or "none"
    last,         \* arguments and outcome of the last operation
    calls,        \* number of parse_file calls made so far
    tags,         \* the lines the tag listing of the repository prints
    releases,     \* firefox_releases: version -> tag name
    tree,         \* what the working tree of the repository is checked out at
    exit_code,    \* exit status of the process, Running while it runs
    trace,        \* the steps of the run begun so far, in order
    _config,      \* the config file on disk and the module global _config
    docs          \* the docs/data directory: file name -> content

\* the state of a run around the extraction
procVars == <<tags, releases, tree, exit_code, trace>>

\* the configuration and the chart data
fileVars == <<_config, docs>>

vars == <<string_list, version, stats, pc, raised, last, calls,
          tags, releases, tree, exit_code, trace, _config, docs>>

-----------------------------------------------------------------------------
(* Bounds of the model *)

\* longest identifier list of a table handed directly to store_completion
MaxLen == 2
\* longest locale list handed to store_completion
MaxLocales == 2
\* most entries of a file whose metadata is drawn from all MetaValues
MaxEntries == 2
\* most parse_file calls of one extraction
MaxCalls == 2

-----------------------------------------------------------------------------
(* Python values *)

\* None; no real string is a one-element sequence holding a 4-character string
None == <<"None">>

\* str(x) for x a string or None
Str(x) == IF x = None THEN <<"N", "o", "n", "e">> ELSE x

\* s.split(sep): the pieces between the separators, at least one piece
RECURSIVE Split(_, _)
Split(s, sep) ==
    IF s = <<>> THEN << <<>> >>
    ELSE LET rest == Split(Tail(s), sep)
         IN  IF Head(s) = sep
             THEN << <<>> >> \o rest
             ELSE << <<Head(s)>> \o Head(rest) >> \o Tail(rest)

\* s.replace(old, new) for one-character old and new
Replace(s, old, new) == [i \in 1..Len(s) |-> IF s[i] = old THEN new ELSE s[i]]

\* the set of the elements of a sequence
Range(s) == {s[i] : i \in 1..Len(s)}

DigitChars == <<"0", "1", "2", "3", "4", "5", "6", "7", "8", "9">>

DigitValue(c) == (CHOOSE i \in 1..10 : DigitChars[i] = c) - 1

\* whether int(s) returns: s is a non-empty run of decimal digits.  (int()
\* also accepts surrounding blanks, a sign and inner underscores; the inputs
\* of the model hold none of these.)
IsInt(s) == s # <<>> /\ \A i \in 1..Len(s) : s[i] \in Range(DigitChars)

\* int(s) for such an s
RECURSIVE IntOf(_)
IntOf(s) ==
    IF s = <<>> THEN 0
    ELSE 10 * IntOf(SubSeq(s, 1, Len(s) - 1)) + DigitValue(s[Len(s)])

-----------------------------------------------------------------------------
(* The string table.  The outer dict is a function on the file keys it     *)
(* holds.  An inner dict is the sequence of its items in insertion order,  *)
(* which is the order a Python dict keeps.                                 *)

FileKeys == {"f1.ftl", "f2.ftl"}
Locales == {"source", "it", "fr"}

EmptyTable == [k \in {} |-> <<>>]

\* locale in values
HasLocale(values, locale) == \E i \in 1..Len(values) : values[i].locale = locale

\* values.get(locale, [])
GetIds(values, locale) ==
    IF HasLocale(values, locale)
    THEN values[CHOOSE i \in 1..Len(values) : values[i].locale = locale].ids
    ELSE <<>>

\* values[locale] = ids
SetIds(values, locale, ids) ==
    IF HasLocale(values, locale)
    THEN [i \in 1..Len(values) |->
            IF values[i].locale = locale
            THEN [locale |-> locale, ids |-> ids] ELSE values[i]]
    ELSE Append(values, [locale |-> locale, ids |-> ids])

\* table[key] = values
SetKey(table, key, values) ==
    [k \in DOMAIN table \cup {key} |-> IF k = key THEN values ELSE table[k]]

-----------------------------------------------------------------------------
(* store_completion *)

\* round(x, 4)
Ndigits == 4
RoundScale == 10 ^ Ndigits

\* sum(len(values.get(locale, [])) for values in string_list.values())
RECURSIVE SumLen(_, _, _)
SumLen(table, keys, locale) ==
    IF keys = {} THEN 0
    ELSE LET k == CHOOSE k \in keys : TRUE
         IN  Len(GetIds(table[k], locale)) + SumLen(table, keys \ {k}, locale)

\* LocaleStats with one counter for all the locales
LocaleStatsShared(table, locale) ==
    IF locale = "source" THEN SumLen(table, DOMAIN table, "source")
    ELSE SumLen(table, DOMAIN table, "it") + SumLen(table, DOMAIN table, "fr")

LocaleStats(table, locale) == SumLen(table, DOMAIN table, locale)

\* RoundRatio cutting the digits off instead of rounding
RoundRatioTruncated(n, d) == (n * RoundScale) \div d

\* round(n / d, 4) as a number of ten-thousandths.  n / d is the double
\* nearest to the quotient and round() rounds its exact value half to even.
\* The quotient lies half way between two ten-thousandths only when
\* 20000 * n / d is an odd integer, which needs d to be a multiple of 32;
\* the double differs from the quotient by less than the distance to such a
\* point for every other d.
RoundRatio(n, d) ==
    LET q == (n * RoundScale) \div d
        r == (n * RoundScale) % d
    IN  IF 2 * r < d THEN q
        ELSE IF 2 * r > d THEN q + 1
        ELSE IF q % 2 = 0 THEN q ELSE q + 1

\* Counted without the test of line 46
CountedWithSource(locales) == Range(locales)

\* the locales the loop of lines 45-51 reaches
Counted(locales) == Range(locales) \ {"source"}

\* whether the division of line 51 raises ZeroDivisionError
DivisionRaises(table, locales) ==
    LocaleStats(table, "source") = 0 /\ Counted(locales) # {}

\* the completion dict of lines 39-51
Completion(table, locales) ==
    [l \in Counted(locales) |->
        RoundRatio(LocaleStats(table, l), LocaleStats(table, "source"))]

Products == {<<"f", "i", "r", "e", "f", "o", "x">>, <<"f", "e", "n", "i", "x">>}

\* f"{product}_{version.replace('.', '_')}.json"
OutputFile(product, v) ==
    product \o <<"_">> \o Replace(v, ".", "_") \o <<".", "j", "s", "o", "n">>

\* the directory after open(output_file, "w") and json.dump
WriteFile(dir, name, content) ==
    [n \in DOMAIN dir \cup {name} |-> IF n = name THEN content ELSE dir[n]]

EmptyDir == [n \in {} |-> <<>>]

\* sequences over S of length at most n
SeqsUpTo(S, n) == UNION {[1..m -> S] : m \in 0..n}

LocaleLists == SeqsUpTo(Locales, MaxLocales)

\* store_completion(string_list, version, locales, product).  The stats
\* directory is taken to be writable: open() does not fail.
StoreCompletion(locales, product) ==
    /\ pc = "extract"
    /\ last' = [op |-> "store_completion", locales |-> locales,
                product |-> product]
    /\ IF DivisionRaises(string_list, locales)
       THEN /\ raised' = "ZeroDivisionError"
            /\ pc' = "failed"
            /\ stats' = stats
       ELSE /\ raised' = "none"
            /\ pc' = "stored"
            /\ stats' = WriteFile(stats, OutputFile(product, version),
                                  Completion(string_list, locales))
    /\ UNCHANGED <<string_list, version, calls>>

-----------------------------------------------------------------------------
(* parse_file *)

\* What parse_resource(file_path) yields for a file on disk: the entries of
\* its sections in order, or an exception.  An item is
\*   [kind, path, meta, removedIn, ignore, properties]
\* kind        "Entry", or "Comment" for an item that is no Entry
\* path        section.id + entry.id
\* meta        FALSE when entry.meta is None
\* removedIn   entry.get_meta("{http://mozac.org/tools}removedIn")
\* ignore      entry.get_meta("{http://schemas.android.com/tools}ignore")
\* properties  the names of entry.properties in order

UnusedResources ==
    <<"U", "n", "u", "s", "e", "d", "R", "e", "s", "o", "u", "r", "c", "e", "s">>

\* ".".join(parts)
RECURSIVE Join(_)
Join(parts) ==
    IF parts = <<>> THEN ""
    ELSE IF Len(parts) = 1 THEN parts[1]
    ELSE parts[1] \o "." \o Join(Tail(parts))

\* entry_id = ".".join(section.id + entry.id)
EntryId(entry) == Join(entry.path)

\* f"{entry_id}.{attribute}" for every attribute of entry.properties
AttrIds(entry) ==
    [i \in 1..Len(entry.properties) |->
        EntryId(entry) \o "." \o entry.properties[i]]

\* truth value of a string or None
Truthy(x) == x # None /\ x # <<>>

\* version.split(".")[0]
MajorOf(v) == Head(Split(v, "."))

\* whether meta_include raises ValueError: one of the two int() calls of
\* line 205 is reached and fails
MetaRaises(entry, v) ==
    /\ entry.meta
    /\ Truthy(entry.removedIn)
    /\ ~IsInt(entry.removedIn) \/ ~IsInt(MajorOf(v))

\* Removed with <= for <
RemovedOrEqual(entry, v) ==
    /\ Truthy(entry.removedIn)
    /\ IntOf(entry.removedIn) <= IntOf(MajorOf(v))

\* removed, line 205 (as a truth value)
Removed(entry, v) ==
    /\ Truthy(entry.removedIn)
    /\ IntOf(entry.removedIn) < IntOf(MajorOf(v))

\* unused, line 210
Unused(entry) == UnusedResources \in Range(Split(Str(entry.ignore), ","))

\* meta_include(entry), when it does not raise
MetaInclude(entry, v) ==
    IF ~entry.meta THEN TRUE
    ELSE ~(Unused(entry) \/ Removed(entry, v))

\* BaseStored without the membership test of line 232
BaseStoredUnfiltered(entry, locale, source, v) ==
    IF locale = "source"
    THEN IF MetaInclude(entry, v) THEN <<EntryId(entry)>> ELSE <<>>
    ELSE <<EntryId(entry)>>

\* the identifiers the base-identifier branch of lines 229-233 stores
BaseStored(entry, locale, source, v) ==
    IF locale = "source"
    THEN IF MetaInclude(entry, v) THEN <<EntryId(entry)>> ELSE <<>>
    ELSE IF EntryId(entry) \in Range(source) THEN <<EntryId(entry)>> ELSE <<>>

\* the identifiers the attribute loop of lines 241-248 stores
AttrStored(entry, locale, source) ==
    IF locale = "source" THEN AttrIds(entry)
    ELSE SelectSeq(AttrIds(entry), LAMBDA id : id \in Range(source))

\* one iteration of the loop of lines 224-248: the identifiers it stores and
\* the exception that ends it.  has_source tells whether
\* string_list[rel_file] has the key "source", source is its list.
EntryStep(item, locale, has_source, source, v) ==
    IF item.kind # "Entry" THEN [ids |-> <<>>, exc |-> "none"]
    ELSE IF locale = "source" /\ MetaRaises(item, v)
    THEN [ids |-> <<>>, exc |-> "ValueError"]
    ELSE IF locale # "source" /\ ~has_source
    THEN [ids |-> <<>>, exc |-> "KeyError"]
    ELSE [ids |-> BaseStored(item, locale, source, v)
                    \o AttrStored(item, locale, source),
          exc |-> "none"]

\* the loop of lines 223-248 over the items from the first one on
RECURSIVE Walk(_, _, _, _, _)
Walk(items, locale, has_source, source, v) ==
    IF items = <<>> THEN [ids |-> <<>>, exc |-> "none"]
    ELSE LET s == EntryStep(Head(items), locale, has_source, source, v)
         IN  IF s.exc # "none" THEN s
             ELSE LET r == Walk(Tail(items), locale, has_source, source, v)
                  IN  [ids |-> s.ids \o r.ids, exc |-> r.exc]

\* the try body, lines 222-248
TryBody(file, locale, has_source, source, v) ==
    IF file.outcome # "ok" THEN [ids |-> <<>>, exc |-> file.outcome]
    ELSE Walk(file.items, locale, has_source, source, v)

\* Handled without the except Exception clause
HandledUnsupportedOnly(exc) == exc = "UnsupportedFormat"

\* the exceptions the two except clauses of lines 249-254 catch:
\* UnsupportedFormat, and every Exception
Handled(exc) ==
    exc \in {"UnsupportedFormat", "Exception", "KeyError", "ValueError"}

\* the file key is given a new dict with an empty list for the locale
CreateAfresh(table, rel_file, locale) ==
    SetKey(table, rel_file, <<[locale |-> locale, ids |-> <<>>]>>)

\* lines 216-219: the file key and the locale's list are created when absent
CreateEntries(table, rel_file, locale) ==
    LET values == IF rel_file \in DOMAIN table THEN table[rel_file] ELSE <<>>
    IN  SetKey(table, rel_file,
               IF HasLocale(values, locale) THEN values
               ELSE SetIds(values, locale, <<>>))

\* the table parse_file leaves behind
Parsed(table, file, rel_file, locale, v) ==
    LET created == CreateEntries(table, rel_file, locale)
        values == created[rel_file]
        body == TryBody(file, locale, HasLocale(values, "source"),
                        GetIds(values, "source"), v)
    IN  [table |-> SetKey(created, rel_file,
                          SetIds(values, locale,
                                 GetIds(values, locale) \o body.ids)),
         exc |-> body.exc]

\* the list at table[rel_file][locale], [] when there is none
ListAt(table, rel_file, locale) ==
    IF rel_file \in DOMAIN table THEN GetIds(table[rel_file], locale) ELSE <<>>

ParseFile(file, rel_file, locale) ==
    LET res == Parsed(string_list, file, rel_file, locale, version)
    IN  /\ pc = "extract"
        /\ string_list' = res.table
        /\ raised' = IF Handled(res.exc) THEN "none" ELSE res.exc
        /\ pc' = IF raised' = "none" THEN "extract" ELSE "failed"
        /\ last' = [op |-> "parse_file", file |-> file, rel_file |-> rel_file,
                    locale |-> locale, exc |-> res.exc,
                    before |-> ListAt(string_list, rel_file, locale)]
        /\ calls' = calls + 1
        /\ UNCHANGED <<version, stats>>
        /\ UNCHANGED procVars
        /\ UNCHANGED fileVars

-----------------------------------------------------------------------------
(* The functions called on their own, outside a run *)

EmptyMap == [v \in {} |-> <<>>]

\* the exit status of a process that has not exited
Running == -1

\* a config file that is not on disk
NoFile == [exists |-> FALSE, lines |-> <<>>]

\* _config = None
NoInstance == [loaded |-> FALSE, paths |-> EmptyMap]

\* the configuration before any get_config call: the file on disk, no
\* instance, and the file not read yet
NotLoaded(file) == [file |-> file, instance |-> NoInstance, reads |-> 0]

\* a working tree before any checkout of the run
Stale == "stale"

\* the working trees of the source and of the l10n repository
StaleTrees == [source |-> Stale, l10n |-> Stale]

\* no run is in progress: nothing listed, resolved or checked out
NoRun ==
    /\ tags = <<>>
    /\ releases = EmptyMap
    /\ tree = StaleTrees
    /\ exit_code = Running
    /\ trace = <<>>
    /\ _config = NotLoaded(NoFile)
    /\ docs = EmptyDir

-----------------------------------------------------------------------------
(* store_completion on any table *)

Ids == <<"a", "b", "c">>

\* an identifier list of length n
IdList(n) == SubSeq(Ids, 1, n)

\* inner dicts holding some of the locales, each with a list of at most
\* MaxLen identifiers (store_completion reads only the lengths)
InnerDicts ==
    UNION { { [i \in 1..Len(order) |->
                 [locale |-> order[i], ids |-> IdList(len[i])]] :
              len \in [1..Len(order) -> 0..MaxLen] } :
            order \in {<<>>, <<"source">>, <<"it">>, <<"fr">>,
                       <<"source", "it">>, <<"source", "fr">>, <<"it", "fr">>,
                       <<"source", "it", "fr">>} }

Tables == UNION {[K -> InnerDicts] : K \in SUBSET FileKeys}

V147 == <<"1", "4", "7", ".", "0">>

InitCalc ==
    /\ string_list \in Tables
    /\ version = V147
    /\ stats = EmptyDir
    /\ pc = "extract"
    /\ raised = "none"
    /\ last = [op |-> "none"]
    /\ calls = 0
    /\ NoRun

StoreAny ==
    /\ \E locales \in LocaleLists, product \in Products :
          StoreCompletion(locales, product)
    /\ UNCHANGED procVars
    /\ UNCHANGED fileVars

NextCalc == StoreAny

SpecCalc == InitCalc /\ [][NextCalc]_vars

-----------------------------------------------------------------------------
(* The files parse_file is called on *)

Item(kind, path, meta, removedIn, ignore, properties) ==
    [kind |-> kind, path |-> path, meta |-> meta, removedIn |-> removedIn,
     ignore |-> ignore, properties |-> properties]

Comment == Item("Comment", <<>>, FALSE, None, None, <<>>)

OkFile(items) == [outcome |-> "ok", items |-> items]

\* parse_resource raises UnsupportedFormat, or another exception (a syntax
\* error, a file that cannot be read)
FailingFiles ==
    {[outcome |-> o, items |-> <<>>] : o \in {"UnsupportedFormat", "Exception"}}

V90 == <<"9", "0", ".", "0">>
V100 == <<"1", "0", "0", ".", "0", ".", "1">>
V120 == <<"1", "2", "0", ".", "0">>

\* --version values
Versions == {V90, V100, V120}

R100 == <<"1", "0", "0">>

\* removedIn values: absent, empty, a number, not a number
RemovedInValues == {None, <<>>, R100, <<"x">>}

\* tools:ignore values: absent, the marker, the marker in a list, other text
IgnoreValues ==
    {None, UnusedResources, <<"F", ",">> \o UnusedResources,
     UnusedResources \o <<"X">>}

EntryPaths == {<<"a">>, <<"s", "b">>}
PropertyLists == {<<>>, <<"p">>}

\* entries that carry metadata, in every combination of the two values
MetaEntries ==
    {Item("Entry", <<"a">>, TRUE, r, g, props) :
        r \in RemovedInValues, g \in IgnoreValues, props \in PropertyLists}

\* entries whose meta is None
PlainEntries ==
    {Item("Entry", path, FALSE, None, None, props) :
        path \in EntryPaths, props \in PropertyLists}

MetaFiles ==
    {OkFile(items) :
        items \in SeqsUpTo(MetaEntries \cup PlainEntries \cup {Comment},
                            MaxEntries)}

\* an entry whose removedIn is not a number
Malformed == Item("Entry", <<"s", "b">>, TRUE, <<"x">>, None, <<>>)

\* an entry marked UnusedResources that has a property
Marked == Item("Entry", <<"a">>, TRUE, None, UnusedResources, <<"p">>)

\* files of at most two entries: plain entries and the two above
SmallItems ==
    {e \in PlainEntries : e.path = <<"a">> \/ e.properties = <<>>}
        \cup {Malformed, Marked}
SmallFiles ==
    {OkFile(<<>>)} \cup {OkFile(<<e>>) : e \in SmallItems}
        \cup {OkFile(<<e, f>>) : e, f \in SmallItems} \cup FailingFiles

\* the locales whose files the extraction parses
ParsedLocales == {"source", "it"}

-----------------------------------------------------------------------------
(* One extraction: parse_file calls in any order, then store_completion *)

Fenix == <<"f", "e", "n", "i", "x">>

\* the locale list the extraction hands to store_completion
RunLocales == <<"fr", "it">>

Init ==
    /\ string_list = EmptyTable
    /\ version = V120
    /\ stats = EmptyDir
    /\ pc = "extract"
    /\ raised = "none"
    /\ last = [op |-> "none"]
    /\ calls = 0
    /\ NoRun

ParseFileCall ==
    /\ calls < MaxCalls
    /\ \E file \in SmallFiles, rel_file \in FileKeys, locale \in ParsedLocales :
          ParseFile(file, rel_file, locale)

StoreRun ==
    /\ StoreCompletion(RunLocales, Fenix)
    /\ UNCHANGED procVars
    /\ UNCHANGED fileVars

Next == ParseFileCall \/ StoreRun

Spec == Init /\ [][Next]_vars

-----------------------------------------------------------------------------
(* One parse_file call for the reference locale on an empty table, for      *)
(* every file and version                                                  *)

InitParse ==
    /\ string_list = EmptyTable
    /\ version \in Versions
    /\ stats = EmptyDir
    /\ pc = "extract"
    /\ raised = "none"
    /\ last = [op |-> "none"]
    /\ calls = 0
    /\ NoRun

ParseOneFile ==
    /\ calls = 0
    /\ \E file \in MetaFiles \cup FailingFiles :
          ParseFile(file, "f1.ftl", "source")

NextParse == ParseOneFile

SpecParse == InitParse /\ [][NextParse]_vars

-----------------------------------------------------------------------------
(* The same parse_file call made twice on one table *)

ParseFirst ==
    /\ calls = 0
    /\ \E file \in SmallFiles, rel_file \in FileKeys, locale \in ParsedLocales :
          ParseFile(file, rel_file, locale)

\* the call is repeated with the same file, file key, locale and version
ParseAgain ==
    /\ calls = 1
    /\ ParseFile(last.file, last.rel_file, last.locale)

NextTwice == ParseFirst \/ ParseAgain

SpecTwice == Init /\ [][NextTwice]_vars

-----------------------------------------------------------------------------
(* get_firefox_releases *)

\* the literal parts of tag_re, r"(FIREFOX_([0-9_]*)_RELEASE)"
TagPrefix == <<"F", "I", "R", "E", "F", "O", "X", "_">>
TagSuffix == <<"_", "R", "E", "L", "E", "A", "S", "E">>

\* a character class without the underscore
DigitsOnly == Range(DigitChars)

\* the character class [0-9_]
VersionChars == Range(DigitChars) \cup {"_"}

\* the literal lit stands in s at position i
StartsWith(s, i, lit) ==
    /\ i + Len(lit) - 1 <= Len(s)
    /\ SubSeq(s, i, i + Len(lit) - 1) = lit

\* for a match that starts at i: the positions where group 2 can end
GroupEnds(s, i) ==
    { j \in (i + Len(TagPrefix) - 1)..Len(s) :
        /\ \A k \in (i + Len(TagPrefix))..j : s[k] \in VersionChars
        /\ StartsWith(s, j + 1, TagSuffix) }

MatchesAt(s, i) == StartsWith(s, i, TagPrefix) /\ GroupEnds(s, i) # {}

Max(S) == CHOOSE x \in S : \A y \in S : y <= x
Min(S) == CHOOSE x \in S : \A y \in S : x <= y

\* tag_re.search(line): the leftmost match, its group 2 as long as it can be;
\* found is FALSE (the result None) when the pattern is nowhere in the line
Search(line) ==
    LET starts == {i \in 1..Len(line) : MatchesAt(line, i)}
    IN  IF starts = {} THEN [found |-> FALSE, group1 |-> <<>>, group2 |-> <<>>]
        ELSE LET i == Min(starts)
                 j == Max(GroupEnds(line, i))
             IN  [found |-> TRUE,
                  group1 |-> SubSeq(line, i, j + Len(TagSuffix)),
                  group2 |-> SubSeq(line, i + Len(TagPrefix), j)]

\* releases[key] = value
Put(map, key, value) ==
    [k \in DOMAIN map \cup {key} |-> IF k = key THEN value ELSE map[k]]

\* lines 93-99: the loop over the lines, a later line overwriting the key of
\* an earlier one
RECURSIVE Releases(_)
Releases(lines) ==
    IF lines = <<>> THEN EmptyMap
    ELSE LET rest == Releases(SubSeq(lines, 1, Len(lines) - 1))
             match == Search(lines[Len(lines)])
         IN  IF ~match.found THEN rest
             ELSE Put(rest, Replace(match.group2, "_", "."), match.group1)

\* get_firefox_releases(repo_path), the tag listing ending with returncode
GetFirefoxReleases(returncode) ==
    /\ last' = [op |-> "get_firefox_releases", returncode |-> returncode]
    /\ IF returncode # 0
       THEN raised' = "RuntimeError" /\ releases' = releases
       ELSE raised' = "none" /\ releases' = Releases(tags)

-----------------------------------------------------------------------------
(* get_firefox_releases on any tag listing *)

\* most lines of a tag listing
MaxTags == 2

\* FIREFOX_<group>_RELEASE
ReleaseTag(group) == TagPrefix \o group \o TagSuffix

Tag_1_0 == ReleaseTag(<<"1", "_", "0">>)
Tag_2 == ReleaseTag(<<"2">>)
Tag_2_0_1 == ReleaseTag(<<"2", "_", "0", "_", "1">>)
\* a tag that holds the pattern and goes on after it
Tag_1_0_B == Tag_1_0 \o <<"_", "B">>
\* tags of the repository that are no release tags
Tag_1_0_BUILD1 == TagPrefix \o <<"1", "_", "0", "_", "B", "U", "I", "L", "D", "1">>
Tag_RELEASE_2_BASE ==
    <<"F", "I", "R", "E", "F", "O", "X">> \o TagSuffix
        \o <<"_", "2", "_", "B", "A", "S", "E">>

\* the tags `git tag -l "FIREFOX_*"` can list
TagNames ==
    {Tag_1_0, Tag_2, Tag_2_0_1, Tag_1_0_B, Tag_1_0_BUILD1, Tag_RELEASE_2_BASE}

V1_0 == <<"1", ".", "0">>
V2 == <<"2">>

InitTags ==
    /\ string_list = EmptyTable
    /\ version = V1_0
    /\ stats = EmptyDir
    /\ pc = "tags"
    /\ raised = "none"
    /\ last = [op |-> "none"]
    /\ calls = 0
    /\ tags \in SeqsUpTo(TagNames, MaxTags)
    /\ releases = EmptyMap
    /\ tree = StaleTrees
    /\ exit_code = Running
    /\ trace = <<>>
    /\ _config = NotLoaded(NoFile)
    /\ docs = EmptyDir

ListTags ==
    /\ pc = "tags"
    /\ \E returncode \in {0, 1} : GetFirefoxReleases(returncode)
    /\ pc' = IF raised' = "none" THEN "listed" ELSE "failed"
    /\ UNCHANGED <<string_list, version, stats, calls, tags, tree, exit_code,
                   trace>>
    /\ UNCHANGED fileVars

NextTags == ListTags

SpecTags == InitTags /\ [][NextTags]_vars

-----------------------------------------------------------------------------
(* update_git_repository *)

\* a failed checkout that raises nothing
UpdateNeverRaises(returncode) == FALSE

\* lines 131-132: RuntimeError when git checkout exits non-zero
UpdateRaises(returncode) == returncode # 0

\* the working trees after `git -C repo checkout changeset`
Checkout(trees, repo, changeset, returncode) ==
    IF returncode = 0 THEN [trees EXCEPT ![repo] = changeset] ELSE trees

-----------------------------------------------------------------------------
(* config.py: Config *)

\* the characters str.strip() removes
Whitespace == {" ", "\t"}

\* the characters of strip('"\'')
Quotes == {"\"", "'"}

\* s.strip(chars)
Strip(s, chars) ==
    LET keep == {i \in 1..Len(s) : s[i] \notin chars}
    IN  IF keep = {} THEN <<>> ELSE SubSeq(s, Min(keep), Max(keep))

\* the value with only the whitespace stripped
ValueUnquoted(text) == Strip(text, Whitespace)

\* line 70: value.strip().strip('"\'')
ValueOf(text) == Strip(Strip(text, Whitespace), Quotes)

\* lines 56-75 for one line of the file: it is skipped, it is an entry, or
\* it is rejected
ParseLine(line) ==
    LET stripped == Strip(line, Whitespace)
        first == Min({i \in 1..Len(stripped) : stripped[i] = "="})
        key == Strip(SubSeq(stripped, 1, first - 1), Whitespace)
        value == ValueOf(SubSeq(stripped, first + 1, Len(stripped)))
    IN  IF stripped = <<>> \/ stripped[1] = "#"
        THEN [kind |-> "skip", key |-> <<>>, value |-> <<>>]
        ELSE IF "=" \notin Range(stripped) \/ key = <<>>
        THEN [kind |-> "error", key |-> <<>>, value |-> <<>>]
        ELSE [kind |-> "entry", key |-> key, value |-> value]

\* the loop of lines 55-75 over the lines from the i-th on
RECURSIVE LoadLines(_, _, _)
LoadLines(lines, i, paths) ==
    IF i > Len(lines) THEN [exc |-> "none", paths |-> paths]
    ELSE LET parsed == ParseLine(lines[i])
         IN  IF parsed.kind = "error"
             THEN [exc |-> "ConfigError", paths |-> paths]
             ELSE LoadLines(lines, i + 1,
                            IF parsed.kind = "skip" THEN paths
                            ELSE Put(paths, parsed.key, parsed.value))

\* Config(config_path): _load reads the file into _paths, or raises
Load(file) ==
    IF ~file.exists THEN [exc |-> "ConfigError", paths |-> EmptyMap]
    ELSE LoadLines(file.lines, 1, EmptyMap)

\* the paths that exist on disk
ExistingPaths == {<<"/", "x">>}

\* a get that never looks at the disk
GetUnvalidated(paths, key, validate) ==
    IF key \notin DOMAIN paths
    THEN [exc |-> "ConfigError", value |-> <<>>]
    ELSE [exc |-> "none", value |-> paths[key]]

\* Config.get(key, validate)
Get(paths, key, validate) ==
    IF key \notin DOMAIN paths
    THEN [exc |-> "ConfigError", value |-> <<>>]
    ELSE IF validate /\ paths[key] \notin ExistingPaths
    THEN [exc |-> "ConfigError", value |-> <<>>]
    ELSE [exc |-> "none", value |-> paths[key]]

\* Config.get_multiple(keys, validate): the values in the order of the
\* keys; the first get that raises ends it
RECURSIVE GetMultiple(_, _, _)
GetMultiple(paths, keys, validate) ==
    IF keys = <<>> THEN [exc |-> "none", values |-> <<>>]
    ELSE LET head == Get(paths, Head(keys), validate)
             rest == GetMultiple(paths, Tail(keys), validate)
         IN  IF head.exc # "none" \/ rest.exc # "none"
             THEN [exc |-> "ConfigError", values |-> <<>>]
             ELSE [exc |-> "none", values |-> <<head.value>> \o rest.values]

\* every call constructs a new Config
GetConfigAnew(state) ==
    LET loaded == Load(state.file)
    IN  [exc |-> loaded.exc,
         state |-> [state EXCEPT
                      !.reads = @ + 1,
                      !.instance = IF loaded.exc = "none"
                                   THEN [loaded |-> TRUE,
                                         paths |-> loaded.paths]
                                   ELSE @]]

\* get_config(): the global instance, constructed when there is none
GetConfig(state) ==
    IF state.instance.loaded THEN [exc |-> "none", state |-> state]
    ELSE LET loaded == Load(state.file)
         IN  [exc |-> loaded.exc,
              state |-> [state EXCEPT
                           !.reads = @ + 1,
                           !.instance = IF loaded.exc = "none"
                                        THEN [loaded |-> TRUE,
                                              paths |-> loaded.paths]
                                        ELSE @]]

\* a read_config that returns nothing on a ConfigError
ReadConfigSwallowed(state, params) ==
    [exc |-> "none", state |-> GetConfig(state).state, values |-> <<>>]

\* read_config(params): the values, or "SystemExit" for sys.exit(1) on a
\* ConfigError
ReadConfigValues(state, params) ==
    LET got == GetConfig(state)
        values == GetMultiple(got.state.instance.paths, params, TRUE)
    IN  IF got.exc # "none" \/ values.exc # "none"
        THEN [exc |-> "SystemExit", state |-> got.state, values |-> <<>>]
        ELSE [exc |-> "none", state |-> got.state, values |-> values.values]

\* a file with these lines
File(lines) == [exists |-> TRUE, lines |-> lines]

\* lines of a configuration file
Line_k_x == <<"k", "=", "/", "x">>
Line_k_y == <<" ", "k", " ", "=", " ", "\"", "/", "y", "\"", " ">>
Line_p_x == <<"p", "=", "'", "/", "x", "'">>
Line_p_xy == <<"p", "=", "/", "x", "=", "/", "y">>
LineComment == <<"#", "k", "=", "/", "y">>
LineBlank == <<" ">>
LineNoEquals == <<"k", " ", "/", "x">>
LineNoKey == <<" ", "=", "/", "x">>

\* the keys asked for
Key_k == <<"k">>
Key_p == <<"p">>
Key_q == <<"q">>

-----------------------------------------------------------------------------
(* StatsExtractor.run; firefox_stats.main takes the same steps *)

\* the version is looked up in any non-empty release map
AnyReleaseAvailable(v, map) == DOMAIN map # {}

\* self.version in firefox_releases
VersionAvailable(v, map) == v \in DOMAIN map

\* only a RuntimeError ends the run
FatalRuntimeOnly(exc) == exc = "RuntimeError"

\* whether a step that ended with exc ends the run: sys.exit(1) in the step,
\* and the handlers of lines 117-122 for every exception
Fatal(exc) == exc # "none"

\* the run after a step: on at next, or over with exit status 1
Goes(exc, next) ==
    /\ pc' = IF Fatal(exc) THEN "failed" ELSE next
    /\ exit_code' = IF Fatal(exc) THEN 1 ELSE exit_code

Step(name) == trace' = Append(trace, name)

\* the revision l10n-changesets.json names for the l10n repository
L10nChangeset == "l10n-revision"

\* the versions a run is started with
RunVersions == {V1_0, V2, V147}

\* the keys _get_config_params names
ConfigParams == <<Key_k, Key_p>>

\* the configuration files a run finds: none, one that lacks a key, one
\* with a path that does not exist, one with a line without "=", and one
\* with both paths
RunConfigFiles ==
    { NoFile,
      File(<<Line_k_x>>),
      File(<<Line_k_y, Line_p_x>>),
      File(<<Line_k_x, LineNoEquals>>),
      File(<<LineComment, Line_k_x, Line_p_x>>) }

\* reference and locale files of the extraction
RunFiles ==
    { OkFile(<<>>),
      OkFile(<<Item("Entry", <<"a">>, FALSE, None, None, <<>>)>>),
      OkFile(<<Item("Entry", <<"a">>, FALSE, None, None, <<>>),
               Item("Entry", <<"s", "b">>, FALSE, None, None, <<>>)>>) }

\* the tables extract_string_list returns: the reference file and the file
\* of a locale parsed under one file key
RunTables(v) ==
    { Parsed(Parsed(EmptyTable, ref, "f1.ftl", "source", v).table,
             loc, "f1.ftl", "it", v).table : ref \in RunFiles, loc \in RunFiles }

InitRun ==
    /\ string_list = EmptyTable
    /\ version \in RunVersions
    /\ stats = EmptyDir
    /\ pc = "start"
    /\ raised = "none"
    /\ last = [op |-> "none"]
    /\ calls = 0
    /\ tags \in SeqsUpTo(TagNames, MaxTags)
    /\ releases = EmptyMap
    /\ tree = StaleTrees
    /\ exit_code = Running
    /\ trace = <<>>
    /\ \E file \in RunConfigFiles : _config = NotLoaded(file)
    /\ docs = EmptyDir

\* line 93: read_config exits with status 1 on a ConfigError
ReadConfig ==
    /\ pc = "start"
    /\ Step("read_config")
    /\ LET read == ReadConfigValues(_config, ConfigParams)
       IN  /\ raised' = read.exc
           /\ Goes(read.exc, "config")
           /\ _config' = read.state
           /\ last' = [op |-> "read_config", values |-> read.values]
    /\ UNCHANGED <<string_list, version, stats, calls, tags, releases, tree,
                   docs>>

\* line 99
ListReleases ==
    /\ pc = "config"
    /\ Step("get_firefox_releases")
    /\ \E returncode \in {0, 1} : GetFirefoxReleases(returncode)
    /\ Goes(raised', "releases")
    /\ UNCHANGED <<string_list, version, stats, calls, tags, tree>>
    /\ UNCHANGED fileVars

\* lines 100-104
CheckVersion ==
    /\ pc = "releases"
    /\ Step("version_check")
    /\ raised' = IF VersionAvailable(version, releases) THEN "none"
                 ELSE "SystemExit"
    /\ Goes(raised', "checked")
    /\ last' = [op |-> "version_check"]
    /\ UNCHANGED <<string_list, version, stats, calls, tags, releases, tree>>
    /\ UNCHANGED fileVars


\* line 107, with the checkouts firefox_stats.main makes: the source
\* repository at the tag of the version, then the l10n repository at the
\* revision the source tree names.  checkouts is the list of the return
\* codes of the checkout commands run.
SetupRepositories ==
    /\ pc = "checked"
    /\ Step("setup_repositories")
    /\ IF version \notin DOMAIN releases
       THEN /\ raised' = "KeyError"
            /\ tree' = tree
            /\ last' = [op |-> "setup_repositories", checkouts |-> <<>>]
       ELSE \E rc1 \in {0, 1} :
              LET first == Checkout(tree, "source", releases[version], rc1)
              IN  IF UpdateRaises(rc1)
                  THEN /\ raised' = "RuntimeError"
                       /\ tree' = first
                       /\ last' = [op |-> "setup_repositories",
                                   checkouts |-> <<rc1>>]
                  ELSE \E rc2 \in {0, 1} :
                         /\ raised' = IF UpdateRaises(rc2) THEN "RuntimeError"
                                      ELSE "none"
                         /\ tree' = Checkout(first, "l10n", L10nChangeset, rc2)
                         /\ last' = [op |-> "setup_repositories",
                                     checkouts |-> <<rc1, rc2>>]
    /\ Goes(raised', "setup")
    /\ UNCHANGED <<string_list, version, stats, calls, tags, releases>>
    /\ UNCHANGED fileVars

\* line 111: extract_string_list returns a table, or fails
ExtractStrings ==
    /\ pc = "setup"
    /\ Step("extract_string_list")
    /\ \/ /\ raised' = "none"
          /\ string_list' \in RunTables(version)
       \/ /\ raised' = "Exception"
          /\ string_list' = string_list
    /\ Goes(raised', "extract")
    /\ last' = [op |-> "extract_string_list"]
    /\ UNCHANGED <<version, stats, calls, tags, releases, tree>>
    /\ UNCHANGED fileVars

\* line 114; the run returns, and the process ends with status 0
StoreStats ==
    /\ Step("store_completion")
    /\ StoreCompletion(RunLocales, Fenix)
    /\ exit_code' = IF Fatal(raised') THEN 1 ELSE 0
    /\ UNCHANGED <<tags, releases, tree>>
    /\ UNCHANGED fileVars

NextRun ==
    \/ ReadConfig
    \/ ListReleases
    \/ CheckVersion
    \/ SetupRepositories
    \/ ExtractStrings
    \/ StoreStats

SpecRun == InitRun /\ [][NextRun]_vars

-----------------------------------------------------------------------------
(* fenix_stats.py: parseXMLFile, extractStringList *)

\* a strings.xml file: whether ET.parse accepts it, and its <string> elements
XmlFile(ok, strings) == [ok |-> ok, strings |-> strings]

\* a <string> element; ignore is "" when the attribute is absent
XmlString(name, ignore) == [name |-> name, ignore |-> ignore]

\* parseXMLFile(file_path, source): the names of the strings, for the source
\* without those marked UnusedResources; [] for a file that does not parse
ParseXMLFile(file, source) ==
    IF ~file.ok THEN <<>>
    ELSE LET kept == SelectSeq(file.strings,
                       LAMBDA s : ~source \/ UnusedResources
                                      \notin Range(Split(s.ignore, ",")))
         IN  [i \in 1..Len(kept) |-> kept[i].name]

\* the products of toml_paths, in the order of the dict
FenixProducts == <<"fenix", "android-components">>

\* f"{product}:{os.path.relpath(source_file, basedir)}"
KeyOf(product) == product \o ":strings.xml"

\* lines 129-146: the loop over the locales of one configuration
RECURSIVE LocaleLoop(_, _, _, _)
LocaleLoop(table, key, locales, l10n) ==
    IF locales = <<>> THEN table
    ELSE LET ids == SelectSeq(ParseXMLFile(l10n.file, FALSE),
                      LAMBDA id : id \in Range(GetIds(table[key], "source")))
             next == IF ~l10n.exists \/ key \notin DOMAIN table THEN table
                     ELSE SetKey(table, key,
                                 SetIds(table[key], Head(locales), ids))
         IN  LocaleLoop(next, key, Tail(locales), l10n)

\* lines 110-146: the loop over the configurations, from the i-th on.  A
\* configuration is [present, locales, has_ref, ref, l10n]: whether its
\* l10n.toml exists, its all_locales, whether its reference file exists, the
\* reference file, and the file every locale has (or lacks).
RECURSIVE ConfigLoop(_, _, _)
ConfigLoop(configs, i, acc) ==
    IF i > Len(configs) \/ acc.exit THEN acc
    ELSE LET config == configs[i]
             key == KeyOf(FenixProducts[i])
             withSource ==
                 IF config.has_ref
                 THEN SetKey(acc.table, key,
                             <<[locale |-> "source",
                                ids |-> ParseXMLFile(config.ref, TRUE)]>>)
                 ELSE acc.table
         IN  IF ~config.present
             THEN [acc EXCEPT !.exit = TRUE]
             ELSE ConfigLoop(configs, i + 1,
                    [table |-> LocaleLoop(withSource, key, config.locales,
                                          config.l10n),
                     locales |-> config.locales,
                     all_locales |-> Range(config.locales)
                                         \cup acc.all_locales,
                     exit |-> FALSE])

\* extractStringList(repo_path): the table and the locale list it returns
ExtractStringList(configs) ==
    ConfigLoop(configs, 1,
               [table |-> EmptyTable, locales |-> <<>>, all_locales |-> {},
                exit |-> FALSE])

\* Python's round(n / d * 100): the nearest integer, the even one of two
\* equally near
RoundPercent(n, d) ==
    LET q == (100 * n) \div d
        r == (100 * n) % d
    IN  IF 2 * r < d THEN q
        ELSE IF 2 * r > d THEN q + 1
        ELSE IF q % 2 = 0 THEN q ELSE q + 1

\* lines 186-195
FenixCompletion(table, locales) ==
    [l \in Counted(locales) |->
        RoundPercent(LocaleStats(table, l), LocaleStats(table, "source"))]

-----------------------------------------------------------------------------
(* fenix_stats.main *)

StringA == XmlString("a", <<>>)
\* a string of the reference that is marked as unused
StringB == XmlString("b", UnusedResources)
\* a string only a locale has
StringC == XmlString("c", <<>>)

ReferenceFiles ==
    { XmlFile(TRUE, <<StringA>>), XmlFile(TRUE, <<StringA, StringB>>),
      XmlFile(FALSE, <<>>) }

\* the file of a locale: missing on disk, or there
LocaleFiles ==
    { [exists |-> FALSE, file |-> XmlFile(FALSE, <<>>)],
      [exists |-> TRUE, file |-> XmlFile(TRUE, <<StringA>>)],
      [exists |-> TRUE, file |-> XmlFile(TRUE, <<StringA, StringC>>)] }

\* the all_locales of a project configuration
ConfigLocales == {<<"it">>, <<"fr">>, <<"fr", "it">>}

\* a configuration whose l10n.toml is missing
NoConfig ==
    [present |-> FALSE, locales |-> <<>>, has_ref |-> FALSE,
     ref |-> XmlFile(FALSE, <<>>),
     l10n |-> [exists |-> FALSE, file |-> XmlFile(FALSE, <<>>)]]

FenixConfigs ==
    {NoConfig}
    \cup { [present |-> TRUE, locales |-> ls, has_ref |-> TRUE, ref |-> ref,
            l10n |-> l10n] :
           ls \in ConfigLocales, ref \in ReferenceFiles, l10n \in LocaleFiles }
    \cup { [present |-> TRUE, locales |-> ls, has_ref |-> FALSE,
            ref |-> XmlFile(FALSE, <<>>), l10n |-> l10n] :
           ls \in ConfigLocales, l10n \in LocaleFiles }

InitFenix ==
    /\ string_list = EmptyTable
    /\ version = V1_0
    /\ stats = EmptyDir
    /\ pc = "fenix_start"
    /\ raised = "none"
    /\ last = [op |-> "none"]
    /\ calls = 0
    /\ tags \in {<<>>, <<Tag_1_0>>, <<Tag_2, Tag_1_0>>, <<Tag_2>>}
    /\ releases = EmptyMap
    /\ tree = StaleTrees
    /\ exit_code = Running
    /\ trace = <<>>
    /\ _config = NotLoaded(NoFile)
    /\ docs = EmptyDir

\* line 176: getFirefoxReleases returns [] when listing the tags fails
FenixReleases ==
    /\ pc = "fenix_start"
    /\ Step("getFirefoxReleases")
    /\ \E returncode \in {0, 1} :
          /\ releases' = IF returncode # 0 THEN EmptyMap ELSE Releases(tags)
          /\ last' = [op |-> "getFirefoxReleases", returncode |-> returncode]
    /\ raised' = "none"
    /\ pc' = "fenix_releases"
    /\ UNCHANGED <<string_list, version, stats, calls, tags, tree, exit_code>>
    /\ UNCHANGED fileVars

\* lines 177-178
FenixCheck ==
    /\ pc = "fenix_releases"
    /\ Step("version_check")
    /\ raised' = IF version \in DOMAIN releases THEN "none" ELSE "SystemExit"
    /\ pc' = IF raised' = "none" THEN "fenix_checked" ELSE "failed"
    /\ exit_code' = IF raised' = "none" THEN exit_code ELSE 1
    /\ last' = [op |-> "version_check"]
    /\ UNCHANGED <<string_list, version, stats, calls, tags, releases, tree>>
    /\ UNCHANGED fileVars

\* line 181: updateRepository catches the RuntimeError it raises for a
\* non-zero exit of the update command, prints it and returns
UpdateRepository ==
    /\ pc = "fenix_checked"
    /\ Step("updateRepository")
    /\ \E returncode \in {0, 1} :
          /\ tree' = Checkout(tree, "source", releases[version], returncode)
          /\ last' = [op |-> "updateRepository", returncode |-> returncode]
    /\ raised' = "none"
    /\ pc' = "fenix_updated"
    /\ UNCHANGED <<string_list, version, stats, calls, tags, releases,
                   exit_code>>
    /\ UNCHANGED fileVars

\* line 184
FenixExtract ==
    /\ pc = "fenix_updated"
    /\ Step("extractStringList")
    /\ \E fenix \in FenixConfigs, components \in FenixConfigs :
          LET configs == <<fenix, components>>
              res == ExtractStringList(configs)
          IN  /\ raised' = IF res.exit THEN "SystemExit" ELSE "none"
              /\ string_list' = IF res.exit THEN string_list ELSE res.table
              /\ last' = [op |-> "extractStringList", configs |-> configs,
                          locales |-> res.locales]
    /\ pc' = IF raised' = "none" THEN "fenix_extracted" ELSE "failed"
    /\ exit_code' = IF raised' = "none" THEN exit_code ELSE 1
    /\ UNCHANGED <<version, stats, calls, tags, releases, tree>>
    /\ UNCHANGED fileVars

\* lines 186-202: the completion of the returned locales is computed and
\* written
FenixStore ==
    /\ pc = "fenix_extracted"
    /\ Step("write")
    /\ IF DivisionRaises(string_list, last.locales)
       THEN /\ raised' = "ZeroDivisionError"
            /\ pc' = "failed"
            /\ exit_code' = 1
            /\ stats' = stats
       ELSE /\ raised' = "none"
            /\ pc' = "stored"
            /\ exit_code' = 0
            /\ stats' = WriteFile(stats, OutputFile(Fenix, version),
                                  FenixCompletion(string_list, last.locales))
    /\ last' = [last EXCEPT !.op = "write"]
    /\ UNCHANGED <<string_list, version, calls, tags, releases, tree>>
    /\ UNCHANGED fileVars

NextFenix ==
    \/ FenixReleases
    \/ FenixCheck
    \/ UpdateRepository
    \/ FenixExtract
    \/ FenixStore

SpecFenix == InitFenix /\ [][NextFenix]_vars

-----------------------------------------------------------------------------
(* get_version_from_filename *)

\* the group of the name left as it is
Undotted(group) == group

\* match.group(1).replace("_", ".")
Dotted(group) == Replace(group, "_", ".")

\* version_re.search(filename) for r"_([\d_]*)": group 1 of the leftmost
\* match, the digits and underscores that follow the first underscore
NameGroup(filename) ==
    LET i == Min({k \in 1..Len(filename) : filename[k] = "_"})
        j == Max({k \in i..Len(filename) :
                    \A m \in (i + 1)..k : filename[m] \in VersionChars})
    IN  SubSeq(filename, i + 1, j)

\* get_version_from_filename(filename): (version, major_version); the assert
\* fails for a name without an underscore
GetVersionFromFilename(filename) ==
    IF "_" \notin Range(filename)
    THEN [exc |-> "AssertionError", version |-> <<>>, major_version |-> <<>>]
    ELSE LET v == Dotted(NameGroup(filename))
         IN  [exc |-> "none", version |-> v, major_version |-> MajorOf(v)]

-----------------------------------------------------------------------------
(* The statistics files: store_completion names them,                      *)
(* get_version_from_filename reads the names                               *)

\* most numeric groups of a version
MaxParts == 3

\* the numeric groups of the versions
NumericGroups == {<<"0">>, <<"1">>, <<"2">>, <<"1", "0", "0">>, <<"1", "4", "7">>}

\* the groups joined by dots
RECURSIVE DotJoin(_)
DotJoin(parts) ==
    IF Len(parts) = 1 THEN parts[1]
    ELSE parts[1] \o <<".">> \o DotJoin(Tail(parts))

\* the dotted numeric versions
DottedVersions ==
    {DotJoin(parts) : parts \in SeqsUpTo(NumericGroups, MaxParts) \ {<<>>}}

\* a table with two reference strings, one of them translated
HalfDone ==
    "f1.ftl" :> << [locale |-> "source", ids |-> <<"a", "b">>],
                   [locale |-> "it", ids |-> <<"a">>] >>

InitNames ==
    /\ string_list \in {EmptyTable, HalfDone}
    /\ version \in DottedVersions
    /\ stats = EmptyDir
    /\ pc = "extract"
    /\ raised = "none"
    /\ last = [op |-> "none"]
    /\ calls = 0
    /\ NoRun

\* store_completion for either product
StoreNamed ==
    /\ \E product \in Products : StoreCompletion(RunLocales, product)
    /\ UNCHANGED procVars
    /\ UNCHANGED fileVars

\* get_version_from_filename on a file of the stats directory
ReadName ==
    /\ pc = "stored"
    /\ \E filename \in DOMAIN stats :
          LET res == GetVersionFromFilename(filename)
          IN  /\ last' = [op |-> "get_version_from_filename",
                          filename |-> filename,
                          result |-> <<res.version, res.major_version>>]
              /\ raised' = res.exc
    /\ pc' = "named"
    /\ UNCHANGED <<string_list, version, stats, calls>>
    /\ UNCHANGED procVars
    /\ UNCHANGED fileVars

NextNames == StoreNamed \/ ReadName

SpecNames == InitNames /\ [][NextNames]_vars

-----------------------------------------------------------------------------
(* Config, get_config and read_config called on configuration files *)

MaxLines == 2
MaxReads == 2

ConfigLines ==
    { Line_k_x, Line_k_y, Line_p_x, Line_p_xy, LineComment, LineBlank,
      LineNoEquals, LineNoKey }

ConfigFiles == {NoFile} \cup {File(lines) : lines \in SeqsUpTo(ConfigLines, MaxLines)}

\* the file a later edit leaves on disk
EditedFiles == {NoFile, File(<<Line_k_x, Line_p_x>>)}

ConfigKeys == {Key_k, Key_p, Key_q}

KeyLists == {<<>>, <<Key_k>>, <<Key_k, Key_p>>, <<Key_p, Key_k>>, <<Key_k, Key_q>>}

InitConfig ==
    /\ string_list = EmptyTable
    /\ version = V147
    /\ stats = EmptyDir
    /\ pc = "idle"
    /\ raised = "none"
    /\ last = [op |-> "none"]
    /\ calls = 0
    /\ tags = <<>>
    /\ releases = EmptyMap
    /\ tree = StaleTrees
    /\ exit_code = Running
    /\ trace = <<>>
    /\ \E file \in ConfigFiles : _config = NotLoaded(file)
    /\ docs = EmptyDir

configFrame ==
    <<string_list, version, stats, tags, releases, tree, trace, docs>>

\* Config(config_path) on the file
NewConfig ==
    /\ pc = "idle"
    /\ LET loaded == Load(_config.file)
       IN  /\ raised' = loaded.exc
           /\ last' = [op |-> "Config", file |-> _config.file,
                       exc |-> loaded.exc, paths |-> loaded.paths]
    /\ UNCHANGED <<pc, exit_code, calls, _config>>
    /\ UNCHANGED configFrame

\* get_config()
CallGetConfig ==
    /\ pc = "idle"
    /\ _config.reads < MaxReads
    /\ LET got == GetConfig(_config)
       IN  /\ raised' = got.exc
           /\ _config' = got.state
           /\ last' = [op |-> "get_config", exc |-> got.exc,
                       before |-> _config]
    /\ UNCHANGED <<pc, exit_code, calls>>
    /\ UNCHANGED configFrame

\* get_config().get(key, validate)
CallGet ==
    /\ pc = "idle"
    /\ _config.instance.loaded
    /\ \E key \in ConfigKeys, validate \in BOOLEAN :
         LET got == Get(_config.instance.paths, key, validate)
         IN  /\ raised' = got.exc
             /\ last' = [op |-> "get", key |-> key, validate |-> validate,
                         exc |-> got.exc, value |-> got.value,
                         before |-> _config]
    /\ UNCHANGED <<pc, exit_code, calls, _config>>
    /\ UNCHANGED configFrame

\* get_config().get_multiple(keys, validate)
CallGetMultiple ==
    /\ pc = "idle"
    /\ _config.instance.loaded
    /\ \E keys \in KeyLists, validate \in BOOLEAN :
         LET got == GetMultiple(_config.instance.paths, keys, validate)
         IN  /\ raised' = got.exc
             /\ last' = [op |-> "get_multiple", keys |-> keys,
                         validate |-> validate, exc |-> got.exc,
                         values |-> got.values, before |-> _config]
    /\ UNCHANGED <<pc, exit_code, calls, _config>>
    /\ UNCHANGED configFrame

\* read_config(params)
CallReadConfig ==
    /\ pc = "idle"
    /\ _config.reads < MaxReads
    /\ \E params \in KeyLists :
         LET read == ReadConfigValues(_config, params)
         IN  /\ raised' = read.exc
             /\ _config' = read.state
             /\ pc' = IF read.exc = "SystemExit" THEN "failed" ELSE pc
             /\ exit_code' = IF read.exc = "SystemExit" THEN 1 ELSE exit_code
             /\ last' = [op |-> "read_config", params |-> params,
                         exc |-> read.exc, values |-> read.values]
    /\ UNCHANGED calls
    /\ UNCHANGED configFrame

\* the file is rewritten or removed between two calls
EditFile ==
    /\ pc = "idle"
    /\ calls < MaxCalls
    /\ calls' = calls + 1
    /\ \E file \in EditedFiles \ {_config.file} :
         _config' = [_config EXCEPT !.file = file]
    /\ last' = [op |-> "edit"]
    /\ UNCHANGED <<pc, exit_code, raised>>
    /\ UNCHANGED configFrame

NextConfig ==
    \/ NewConfig
    \/ CallGetConfig
    \/ CallGet
    \/ CallGetMultiple
    \/ CallReadConfig
    \/ EditFile

SpecConfig == InitConfig /\ [][NextConfig]_vars

-----------------------------------------------------------------------------
(* get_json_files; csv_extract_product.main; build_chart_json.async_main   *)

\* a persisted artifact is the list of the items of its JSON object in file
\* order, each [locale, value]

Firefox == <<"f", "i", "r", "e", "f", "o", "x">>

JsonSuffix == <<".", "j", "s", "o", "n">>

\* the characters of the file names and locale codes in code point order
CharOrder ==
    <<"-", ".">> \o DigitChars \o <<"_">> \o
    <<"a", "b", "c", "d", "e", "f", "g", "h", "i", "j", "k", "l", "m",
      "n", "o", "p", "q", "r", "s", "t", "u", "v", "w", "x", "y", "z">>

CodePoint(c) == CHOOSE i \in 1..Len(CharOrder) : CharOrder[i] = c

\* a < b for two Python strings
LexLess(a, b) ==
    \E i \in 1..(Min({Len(a), Len(b)}) + 1) :
        /\ \A j \in 1..(i - 1) : a[j] = b[j]
        /\ i <= Len(b)
        /\ i > Len(a) \/ CodePoint(a[i]) < CodePoint(b[i])

\* f.endswith(lit)
EndsWith(s, lit) ==
    /\ Len(lit) <= Len(s)
    /\ SubSeq(s, Len(s) - Len(lit) + 1, Len(s)) = lit

\* a set of names as the sorted list list.sort() leaves
RECURSIVE SortedNames(_)
SortedNames(S) ==
    IF S = {} THEN <<>>
    ELSE LET least == CHOOSE a \in S : \A b \in S \ {a} : LexLess(a, b)
         IN  <<least>> \o SortedNames(S \ {least})

\* get_json_files(product)
GetJsonFiles(dir, product) ==
    SortedNames({f \in DOMAIN dir :
                    StartsWith(f, 1, product) /\ EndsWith(f, JsonSuffix)})

\* the characters of a locale code
LocaleChars(locale) ==
    CASE locale = "fr" -> <<"f", "r">>
      [] locale = "it" -> <<"i", "t">>
      [] locale = "source" -> <<"s", "o", "u", "r", "c", "e">>

\* locales.sort()
SortLocales(locales) ==
    SortSeq(locales, LAMBDA a, b : LexLess(LocaleChars(a), LocaleChars(b)))

\* position of the entry of a major version in raw_build_data, 0 for none
EntryOf(raw, major) ==
    IF \E n \in 1..Len(raw) : raw[n].major = major
    THEN CHOOSE n \in 1..Len(raw) : raw[n].major = major
    ELSE 0

\* lines 53-61: the loop over the items of one file, from the j-th on; acc
\* is [raw, locales]
RECURSIVE CsvItems(_, _, _, _, _)
CsvItems(acc, items, j, v, major) ==
    IF j > Len(items) THEN acc
    ELSE LET item == items[j]
             raw == IF EntryOf(acc.raw, major) = 0
                    THEN Append(acc.raw, [major |-> major, version |-> v,
                                          completion |-> EmptyMap])
                    ELSE acc.raw
             n == EntryOf(raw, major)
             locales == IF item.locale \in Range(acc.locales)
                        THEN acc.locales
                        ELSE Append(acc.locales, item.locale)
         IN  CsvItems([raw |-> [raw EXCEPT ![n].completion =
                                   Put(@, item.locale, item.value)],
                       locales |-> locales],
                      items, j + 1, v, major)

\* lines 49-61: the loop over the files from the i-th on
RECURSIVE CsvFiles(_, _, _, _)
CsvFiles(acc, dir, files, i) ==
    IF i > Len(files) THEN acc
    ELSE LET name == GetVersionFromFilename(files[i])
         IN  CsvFiles(CsvItems(acc, dir[files[i]], 1, name.version,
                               name.major_version),
                      dir, files, i + 1)

\* f"{product}_locales.csv"
CsvName(product) ==
    product \o <<"_", "l", "o", "c", "a", "l", "e", "s", ".", "c", "s", "v">>

\* the file lines 69-81 write: the header and the rows; a locale a row has
\* no value for is left out of its cells (DictWriter writes it empty)
CsvFile(dir, product) ==
    LET acc == CsvFiles([raw |-> <<>>, locales |-> <<>>], dir,
                        GetJsonFiles(dir, product), 1)
        build_data == SortSeq(acc.raw,
                              LAMBDA a, b : IntOf(a.major) < IntOf(b.major))
    IN  [fieldnames |-> <<"Version", "Major version">>
                            \o SortLocales(acc.locales),
         rows |-> [n \in 1..Len(build_data) |->
                     [Version |-> <<"'">> \o build_data[n].version,
                      Major |-> IntOf(build_data[n].major),
                      cells |-> build_data[n].completion]]]

max_versions == 30

\* str(n) for an int
RECURSIVE StrOfInt(_)
StrOfInt(n) ==
    IF n < 0 THEN <<"-">> \o StrOfInt(0 - n)
    ELSE IF n < 10 THEN <<DigitChars[n + 1]>>
    ELSE StrOfInt(n \div 10) \o <<DigitChars[(n % 10) + 1]>>

\* a window that reaches one major version further back
VersionsInclusive(v) ==
    LET version_int == IntOf(MajorOf(v))
    IN  {StrOfInt(n) : n \in (version_int - max_versions)..version_int}

\* lines 85-86: the major versions of the chart
ChartVersions(v) ==
    LET version_int == IntOf(MajorOf(v))
    IN  {StrOfInt(n) : n \in (version_int - max_versions + 1)..version_int}

\* lines 100-107 for one item
ChartItem(data, names, product, major, item) ==
    LET locale == item.locale
        entry == IF locale \in DOMAIN data THEN data[locale]
                 ELSE [name |-> IF locale \in DOMAIN names THEN names[locale]
                                ELSE locale,
                       products |-> EmptyMap]
        values == IF product \in DOMAIN entry.products
                  THEN entry.products[product] ELSE EmptyMap
    IN  Put(data, locale,
            [entry EXCEPT !.products =
                Put(@, product, Put(values, major, item.value))])

RECURSIVE ChartItems(_, _, _, _, _, _)
ChartItems(data, names, product, major, items, j) ==
    IF j > Len(items) THEN data
    ELSE ChartItems(ChartItem(data, names, product, major, items[j]),
                    names, product, major, items, j + 1)

\* lines 94-107: the loop over the files of a product from the i-th on
RECURSIVE ChartFiles(_, _, _, _, _, _, _)
ChartFiles(data, names, product, dir, versions, files, i) ==
    IF i > Len(files) THEN data
    ELSE LET major == GetVersionFromFilename(files[i]).major_version
         IN  ChartFiles(IF major \notin versions THEN data
                        ELSE ChartItems(data, names, product, major,
                                        dir[files[i]], 1),
                        names, product, dir, versions, files, i + 1)

\* completion_data of lines 89-107: locale -> [name, products], products
\* being product -> (major version -> value)
CompletionData(dir, v, names) ==
    LET versions == ChartVersions(v)
        fenix == ChartFiles(EmptyMap, names, Fenix, dir, versions,
                            GetJsonFiles(dir, Fenix), 1)
    IN  ChartFiles(fenix, names, Firefox, dir, versions,
                   GetJsonFiles(dir, Firefox), 1)

DataJson == <<"d", "a", "t", "a", ".", "j", "s", "o", "n">>

-----------------------------------------------------------------------------
(* The reports run on a stats directory *)

\* most artifacts in the stats directory
MaxFiles == 2

V99_0 == <<"9", "9", ".", "0">>
V100_0 == <<"1", "0", "0", ".", "0">>
V117_0 == <<"1", "1", "7", ".", "0">>
V118_0 == <<"1", "1", "8", ".", "0">>
V147_0_2 == <<"1", "4", "7", ".", "0", ".", "2">>
V147_0_10 == <<"1", "4", "7", ".", "0", ".", "1", "0">>
V148_0 == <<"1", "4", "8", ".", "0">>

\* the versions artifacts were persisted for
ArtifactVersions ==
    [p \in Products |->
        IF p = Firefox
        THEN {V99_0, V100_0, V117_0, V118_0, V147, V147_0_2, V147_0_10, V148_0}
        ELSE {V147, V147_0_2}]

ArtifactNames ==
    {OutputFile(p, v) : p \in {Firefox}, v \in ArtifactVersions[Firefox]}
    \cup {OutputFile(p, v) : p \in {Fenix}, v \in ArtifactVersions[Fenix]}

Ratio(locale, value) == [locale |-> locale, value |-> value]

\* what store_completion persisted: no locale, one locale, two locales
ArtifactContents ==
    { <<>>,
      <<Ratio("it", 5000)>>,
      <<Ratio("it", 10000), Ratio("fr", 5000)>> }

\* the stats directories
Directories ==
    UNION { [names -> ArtifactContents] :
              names \in {S \in SUBSET ArtifactNames : Cardinality(S) <= MaxFiles} }

\* what get_locale_names returns
LocaleNameTables == {EmptyMap, "it" :> "Italian"}

InitReports ==
    /\ string_list = EmptyTable
    /\ version = V147
    /\ stats \in Directories
    /\ pc = "reports"
    /\ raised = "none"
    /\ last = [op |-> "none"]
    /\ calls = 0
    /\ tags = <<>>
    /\ releases = EmptyMap
    /\ tree = StaleTrees
    /\ exit_code = Running
    /\ trace = <<>>
    /\ _config = NotLoaded(NoFile)
    /\ docs = EmptyDir

\* csv_extract_product.main for --product
ExportCsv ==
    /\ pc = "reports"
    /\ \E product \in Products :
          /\ stats' = WriteFile(stats, CsvName(product),
                                CsvFile(stats, product))
          /\ last' = [op |-> "csv_extract_product", product |-> product]
    /\ raised' = "none"
    /\ exit_code' = 0
    /\ UNCHANGED <<string_list, version, pc, calls, tags, releases, tree,
                   trace>>
    /\ UNCHANGED fileVars

\* build_chart_json.async_main(version); get_locale_names exits with status 1
\* when a page cannot be fetched
BuildChart ==
    /\ pc = "reports"
    /\ \/ /\ \E names \in LocaleNameTables :
                /\ docs' = WriteFile(docs, DataJson,
                                     CompletionData(stats, version, names))
                /\ last' = [op |-> "build_chart_json", names |-> names]
          /\ raised' = "none"
          /\ exit_code' = 0
       \/ /\ raised' = "SystemExit"
          /\ exit_code' = 1
          /\ last' = [op |-> "build_chart_json", names |-> EmptyMap]
          /\ UNCHANGED docs
    /\ UNCHANGED <<string_list, version, stats, pc, calls, tags, releases,
                   tree, trace, _config>>

NextReports == ExportCsv \/ BuildChart

SpecReports == InitReports /\ [][NextReports]_vars

-----------------------------------------------------------------------------
(* fxios_stats.py: extract_strings, compute_localization_completion *)

\* ref_locale
RefLocale == "en-US"

FxiosLocales == {"en-US", "it", "fr"}

\* key_file_name of the reference files, in the order of ref_files
FxiosKeys == <<"Client/Menu.strings", "Shared/Shared.strings">>

\* lines 47-67 for the reference files from the i-th on; disk gives for
\* every key whether the file of the locale exists and the string ids of
\* its lines
RECURSIVE ExtractStringsFrom(_, _, _, _)
ExtractStringsFrom(table, i, locale, disk) ==
    IF i > Len(FxiosKeys) THEN table
    ELSE LET key == FxiosKeys[i]
             created == CreateEntries(table, key, locale)
             ids == GetIds(created[key], locale)
         IN  ExtractStringsFrom(
                 IF disk[key].exists
                 THEN SetKey(created, key,
                             SetIds(created[key], locale,
                                    ids \o disk[key].ids))
                 ELSE created,
                 i + 1, locale, disk)

\* extract_strings(repo_path, ref_files, locale, string_list)
ExtractStringsFxios(table, locale, disk) ==
    ExtractStringsFrom(table, 1, locale, disk)

\* round(100 * n / d, 1) as a number of tenths: the nearest tenth, the even
\* one of two equally near
RoundTenths(n, d) ==
    LET q == (1000 * n) \div d
        r == (1000 * n) % d
    IN  IF 2 * r < d THEN q
        ELSE IF 2 * r > d THEN q + 1
        ELSE IF q % 2 = 0 THEN q ELSE q + 1

\* lines 75-88 for one locale over the file keys: the totals of the files
\* under which the locale has an entry; missing is the set of the
\* (file, id) pairs of the list, which holds none of them twice
RECURSIVE LocaleTotals(_, _, _)
LocaleTotals(table, keys, locale) ==
    IF keys = {} THEN [total |-> 0, translated |-> 0, missing |-> {}]
    ELSE LET k == CHOOSE k \in keys : TRUE
             rest == LocaleTotals(table, keys \ {k}, locale)
             ref_ids == Range(GetIds(table[k], RefLocale))
             target_ids == Range(GetIds(table[k], locale))
             valid_ids == ref_ids \cap target_ids
             missing == ref_ids \ valid_ids
         IN  IF ~HasLocale(table[k], locale) THEN rest
             ELSE [total |-> rest.total + Cardinality(ref_ids),
                   translated |-> rest.translated + Cardinality(valid_ids),
                   missing |-> rest.missing \cup {<<k, id>> : id \in missing}]

\* compute_localization_completion(string_list): locale -> [total,
\* translated, missing, percentage], percentage in tenths
ComputeLocalizationCompletion(table) ==
    LET locales == {l \in FxiosLocales \ {RefLocale} :
                       \E k \in DOMAIN table : HasLocale(table[k], l)}
    IN  [l \in locales |->
            LET totals == LocaleTotals(table, DOMAIN table, l)
                total == totals.total
                missing == Cardinality(totals.missing)
            IN  [total |-> total,
                 translated |-> totals.translated,
                 missing |-> totals.missing,
                 percentage |-> IF total # 0
                                THEN RoundTenths(total - missing, total)
                                ELSE 0]]

\* the id lists of a file
FxiosIds == {<<>>, <<"a">>, <<"a", "b">>, <<"a", "x">>}

\* the entries under a file key: the reference locale and it, each absent
\* or with a list
FxiosEntries ==
    { SelectSeq(<<[locale |-> RefLocale, ids |-> ref.ids, in |-> ref.in],
                  [locale |-> "it", ids |-> it.ids, in |-> it.in]>>,
                LAMBDA e : e.in) :
        ref \in ({[in |-> FALSE, ids |-> <<>>]}
                 \cup {[in |-> TRUE, ids |-> ids] : ids \in FxiosIds}),
        it \in ({[in |-> FALSE, ids |-> <<>>]}
                \cup {[in |-> TRUE, ids |-> ids] : ids \in FxiosIds}) }

\* string_list values handed to compute_localization_completion
FxiosTables ==
    UNION { [keys -> {[n \in 1..Len(e) |->
                         [locale |-> e[n].locale, ids |-> e[n].ids]] :
                      e \in FxiosEntries}] :
              keys \in SUBSET Range(FxiosKeys) }

\* the files of a locale in the repository
FxiosDisks ==
    [Range(FxiosKeys) -> {[exists |-> FALSE, ids |-> <<>>],
                          [exists |-> TRUE, ids |-> <<"a">>],
                          [exists |-> TRUE, ids |-> <<"b", "a">>]}]

InitFxios ==
    /\ string_list \in FxiosTables
    /\ version = V147
    /\ stats = EmptyDir
    /\ pc = "fxios"
    /\ raised = "none"
    /\ last = [op |-> "none"]
    /\ calls = 0
    /\ tags = <<>>
    /\ releases = EmptyMap
    /\ tree = StaleTrees
    /\ exit_code = Running
    /\ trace = <<>>
    /\ _config = NotLoaded(NoFile)
    /\ docs = EmptyDir

\* extract_strings for a locale the table holds nothing of
ExtractFxios ==
    /\ pc = "fxios"
    /\ \E locale \in FxiosLocales, disk \in FxiosDisks :
          /\ \A k \in DOMAIN string_list : ~HasLocale(string_list[k], locale)
          /\ string_list' = ExtractStringsFxios(string_list, locale, disk)
          /\ last' = [op |-> "extract_strings", locale |-> locale]
    /\ raised' = "none"
    /\ UNCHANGED <<version, stats, pc, calls>>
    /\ UNCHANGED procVars
    /\ UNCHANGED fileVars

\* compute_localization_completion(string_list)
ComputeFxios ==
    /\ pc = "fxios"
    /\ last' = [op |-> "compute_localization_completion",
                completion |-> ComputeLocalizationCompletion(string_list)]
    /\ raised' = "none"
    /\ UNCHANGED <<string_list, version, stats, pc, calls>>
    /\ UNCHANGED procVars
    /\ UNCHANGED fileVars

NextFxios == ExtractFxios \/ ComputeFxios

SpecFxios == InitFxios /\ [][NextFxios]_vars

-----------------------------------------------------------------------------
(* Properties *)

\* the places of the identifiers of a locale in the table: (file key, index)
Positions(locale) ==
    UNION { UNION { {<<k, i>> : i \in 1..Len(string_list[k][j].ids)} :
                    j \in {j \in 1..Len(string_list[k]) :
                               string_list[k][j].locale = locale} } :
            k \in DOMAIN string_list }

\* the number of identifiers of a locale over all file keys
Total(locale) == Cardinality(Positions(locale))

Abs(x) == IF x < 0 THEN -x ELSE x

\* the identifiers of the "source" list of a file key
SourceIdSet(k) ==
    UNION { Range(string_list[k][j].ids) :
            j \in {j \in 1..Len(string_list[k]) :
                       string_list[k][j].locale = "source"} }

\* the first item of an inner dict is the "source" entry
SourceFirst(values) == values # <<>> /\ values[1].locale = "source"

StoreCalled == last.op = "store_completion"
ParseCalled == last.op = "parse_file"

\* the list the last parse_file call appended to
LastList == ListAt(string_list, last.rel_file, last.locale)

\* the identifiers the last parse_file call appended
LastAdded == SubSeq(LastList, Len(last.before) + 1, Len(LastList))

\* C1: the completion mapping store_completion writes never has the key
\* "source", whatever the table and the locale list (also a list that
\* contains "source").
C1_NoSourceKey == \A n \in DOMAIN stats : "source" \notin DOMAIN stats[n]

\* store_completion was handed a list with "source" and wrote ratios
C1_Witness ==
    /\ StoreCalled
    /\ "source" \in Range(last.locales)
    /\ pc = "stored"
    /\ \E n \in DOMAIN stats : DOMAIN stats[n] # {}

\* C2: for every locale of the list other than "source" the value written
\* is L / S rounded to 4 decimals (the ten-thousandth nearest to L / S),
\* L and S the numbers of identifiers of the locale and of "source" over all
\* file keys; it is 1.0 when L = S.
C2_RatioRounded ==
    (StoreCalled /\ pc = "stored") =>
        \A n \in DOMAIN stats :
            /\ DOMAIN stats[n] = Range(last.locales) \ {"source"}
            /\ \A l \in DOMAIN stats[n] :
                /\ 2 * Abs(stats[n][l] * Total("source") - 10000 * Total(l))
                       <= Total("source")
                /\ Total(l) = Total("source") => stats[n][l] = 10000

\* source has 4 identifiers, it has 3, fr has 2: it 0.75 and fr 0.5
C2_Witness ==
    /\ StoreCalled
    /\ Total("source") = 4 /\ Total("it") = 3 /\ Total("fr") = 2
    /\ \E n \in DOMAIN stats :
        /\ DOMAIN stats[n] = {"it", "fr"}
        /\ stats[n]["it"] = 7500 /\ stats[n]["fr"] = 5000

\* C3: every ratio written for a table that parse_file built, the "source"
\* call of each file key made first, lies in [0, 1].
C3_RatioInUnitInterval ==
    (\A k \in DOMAIN string_list : SourceFirst(string_list[k])) =>
        \A n \in DOMAIN stats : \A l \in DOMAIN stats[n] :
            0 <= stats[n][l] /\ stats[n][l] <= 10000

\* C4: when the "source" lists hold no identifier at all, store_completion
\* ends in an error and writes no artifact, for every locale list.
C4_ZeroSourceIsFatal ==
    (StoreCalled /\ Total("source") = 0) => (pc = "failed" /\ stats = EmptyDir)

\* the table with only the "source" entries and those of one locale
OnlyLocale(table, l) ==
    [k \in DOMAIN table |->
        SelectSeq(table[k], LAMBDA e : e.locale \in {"source", l})]

\* the table with an empty list wherever a file key has no entry for l
WithEmptyLists(table, l) ==
    [k \in DOMAIN table |->
        IF \E j \in 1..Len(table[k]) : table[k][j].locale = l THEN table[k]
        ELSE Append(table[k], [locale |-> l, ids |-> <<>>])]

\* C5: a file key without an entry for a locale counts as an empty list and
\* raises nothing; a locale without any entry gets 0.0 when the source total
\* is not zero; the ratio of a locale does not depend on the entries of the
\* other locales.
C5_MissingCountsZero ==
    (StoreCalled /\ Total("source") > 0) =>
        /\ pc = "stored" /\ raised = "none" /\ DOMAIN stats # {}
        /\ \A n \in DOMAIN stats : \A l \in Range(last.locales) \ {"source"} :
            /\ l \in DOMAIN stats[n]
            /\ Positions(l) = {} => stats[n][l] = 0
            /\ stats[n][l] = Completion(WithEmptyLists(string_list, l), <<l>>)[l]
            /\ stats[n][l] = Completion(OnlyLocale(string_list, l), <<l>>)[l]

\* fr has no entry anywhere and gets 0.0; it has no entry under one of the
\* file keys and gets its ratio from the other
C5_Witness ==
    /\ StoreCalled /\ pc = "stored"
    /\ last.locales = <<"fr", "it">>
    /\ Positions("fr") = {}
    /\ \A k \in DOMAIN string_list :
           \A j \in 1..Len(string_list[k]) : string_list[k][j].locale # "fr"
    /\ \E k \in DOMAIN string_list :
        /\ SourceIdSet(k) # {}
        /\ \A j \in 1..Len(string_list[k]) : string_list[k][j].locale # "it"
    /\ \E n \in DOMAIN stats : stats[n]["fr"] = 0 /\ stats[n]["it"] = 5000

\* C6: after any sequence of parse_file calls every identifier of a list of
\* a locale other than "source" is in the "source" list of the same file key.
C6_LocaleIdsAreSourceIds ==
    \A k \in DOMAIN string_list : \A j \in 1..Len(string_list[k]) :
        string_list[k][j].locale # "source" =>
            Range(string_list[k][j].ids) \subseteq SourceIdSet(k)

\* a locale file held an entry the reference lacks, and one it has
C6_Witness ==
    /\ ParseCalled /\ last.locale = "it" /\ last.file.outcome = "ok"
    /\ LastAdded # <<>>
    /\ \E i \in 1..Len(last.file.items) :
           last.file.items[i].path = <<"s", "b">>
    /\ "s.b" \notin SourceIdSet(last.rel_file)

\* C7: every file key of the table has a "source" entry, created before the
\* entry of any other locale: a call for another locale creates no file key.
C7_SourceCreatedFirst ==
    \A k \in DOMAIN string_list : SourceFirst(string_list[k])

\* the major number of the cutoff version
MajorNumber ==
    CASE version = V90 -> 90
      [] version = V100 -> 100
      [] version = V120 -> 120

\* the entry carries removedIn 100 and the cutoff major is greater, or it
\* carries an ignore list that contains UnusedResources
Excluded(item) ==
    /\ item.meta
    /\ \/ item.removedIn = R100 /\ 100 < MajorNumber
       \/ item.ignore \in {UnusedResources, <<"F", ",">> \o UnusedResources}

\* the entry whose removedIn is not a number ends the loop
EndsLoop(item) ==
    item.kind = "Entry" /\ item.meta /\ item.removedIn = <<"x">>

BaseName(item) == IF item.path = <<"a">> THEN "a" ELSE "s.b"

\* the identifiers of the entries that are not excluded, up to the entry
\* that ends the loop
RECURSIVE IncludedNames(_)
IncludedNames(items) ==
    IF items = <<>> \/ EndsLoop(Head(items)) THEN <<>>
    ELSE (IF Head(items).kind = "Entry" /\ ~Excluded(Head(items))
          THEN <<BaseName(Head(items))>> ELSE <<>>)
         \o IncludedNames(Tail(items))

\* C8: for the "source" locale parse_file leaves out the identifier of an
\* entry it reaches exactly when the entry carries a removedIn number below
\* the major number of the cutoff version or an ignore list that contains
\* UnusedResources; an entry without metadata, with an empty removedIn or
\* with a removedIn equal to or above the cutoff major is included.
C8_SourceInclusion ==
    (ParseCalled /\ last.locale = "source" /\ last.file.outcome = "ok") =>
        SelectSeq(LastAdded, LAMBDA id : id \in {"a", "s.b"})
            = IncludedNames(last.file.items)

\* removedIn 100 at cutoff 120: the entry is left out, the plain one is kept
C8_Witness ==
    /\ ParseCalled /\ last.locale = "source"
    /\ version = V120
    /\ last.file.items =
         << Item("Entry", <<"a">>, TRUE, R100, None, <<>>),
            Item("Entry", <<"s", "b">>, FALSE, None, None, <<>>) >>
    /\ LastList = <<"s.b">>

\* the identifiers of the entries that are not excluded, each followed by
\* its attribute identifiers
RECURSIVE IncludedWithAttributes(_)
IncludedWithAttributes(items) ==
    IF items = <<>> \/ EndsLoop(Head(items)) THEN <<>>
    ELSE (IF Head(items).kind = "Entry" /\ ~Excluded(Head(items))
          THEN <<BaseName(Head(items))>>
                 \o [i \in 1..Len(Head(items).properties) |->
                        BaseName(Head(items)) \o "." \o Head(items).properties[i]]
          ELSE <<>>)
         \o IncludedWithAttributes(Tail(items))

\* C9: attribute identifiers are added only for an included entry: for the
\* "source" locale an excluded entry adds nothing, and for another locale
\* only identifiers of the "source" list are added.
C9_AttributesOnlyOfIncluded ==
    (ParseCalled /\ last.file.outcome = "ok") =>
        IF last.locale = "source"
        THEN LastAdded = IncludedWithAttributes(last.file.items)
        ELSE Range(LastAdded) \subseteq SourceIdSet(last.rel_file)

\* whether the loop fails at an item: a "source" entry whose removedIn is
\* not a number, or any entry of another locale when the file key has no
\* "source" list
FailsAt(item, locale, k) ==
    IF locale = "source" THEN EndsLoop(item)
    ELSE item.kind = "Entry" /\ ~HasLocale(string_list[k], "source")

\* the items before the first one the loop fails at
RECURSIVE BeforeFailure(_, _, _)
BeforeFailure(items, locale, k) ==
    IF items = <<>> \/ FailsAt(Head(items), locale, k) THEN <<>>
    ELSE <<Head(items)>> \o BeforeFailure(Tail(items), locale, k)

\* C10: no exception leaves parse_file, the extraction goes on, and the list
\* holds what it held before followed by exactly the identifiers of the
\* items read before the failure (none when the file could not be parsed).
C10_FailureKeepsPrefix ==
    ParseCalled =>
        /\ raised = "none" /\ pc = "extract"
        /\ last.file.outcome # "ok" => LastList = last.before
        /\ last.file.outcome = "ok" =>
            LET good == BeforeFailure(last.file.items, last.locale, last.rel_file)
            IN  /\ last.exc = "none" <=> good = last.file.items
                /\ LastAdded =
                     Walk(good, last.locale, TRUE,
                          GetIds(string_list[last.rel_file], "source"),
                          version).ids

\* a second call failed after it had stored an identifier, behind the ones
\* an earlier call stored
C10_Witness ==
    /\ ParseCalled /\ last.exc = "ValueError"
    /\ last.before # <<>>
    /\ LastAdded # <<>>
    /\ pc = "extract" /\ raised = "none"

\* C11: running parse_file a second time on the same file, file key, locale
\* and version leaves the list at (file key, locale) as the first run left it.
C11_SecondRunSameList ==
    (ParseCalled /\ calls = 2) => LastList = last.before

\* the versions a tag decodes to: the tag holds FIREFOX_, a group of digits
\* and underscores, and _RELEASE; the version is the group with dots for the
\* underscores
VersionsIn(tag) ==
    { Replace(SubSeq(tag, i + 8, j), "_", ".") :
        <<i, j>> \in { p \in (1..Len(tag)) \X (1..Len(tag)) :
            /\ p[1] + 7 <= p[2]
            /\ p[2] + 8 <= Len(tag)
            /\ SubSeq(tag, p[1], p[1] + 7) = TagPrefix
            /\ \A k \in (p[1] + 8)..p[2] :
                   tag[k] \in {"0", "1", "2", "3", "4", "5", "6", "7", "8",
                               "9", "_"}
            /\ SubSeq(tag, p[2] + 1, p[2] + 8) = TagSuffix } }

ReleasesCalled == last.op = "get_firefox_releases" /\ raised = "none"

\* C16: the mapping get_firefox_releases returns has a key for a version
\* exactly when a listed tag holds FIREFOX_<digits and underscores>_RELEASE
\* with that group; a tag without the pattern adds no key.
C16_KeysOfMatchingTags ==
    ReleasesCalled =>
        DOMAIN releases = UNION {VersionsIn(tags[i]) : i \in 1..Len(tags)}

\* a release tag listed next to a tag that is no release tag
C16_Witness ==
    /\ ReleasesCalled
    /\ tags = <<Tag_1_0_BUILD1, Tag_1_0>>
    /\ DOMAIN releases = {V1_0}

\* C17: every value of the mapping is the full name of a listed tag, the one
\* its key was decoded from.
C17_ValuesAreListedTags ==
    ReleasesCalled =>
        \A v \in DOMAIN releases :
            \E i \in 1..Len(tags) :
                releases[v] = tags[i] /\ v \in VersionsIn(tags[i])

\* C18: when two listed tags decode to the same version, the version is
\* mapped to the one listed later.
C18_LaterTagWins ==
    ReleasesCalled =>
        \A i, j \in 1..Len(tags) :
            (i < j /\ tags[i] # tags[j]
               /\ VersionsIn(tags[i]) \cap VersionsIn(tags[j]) # {}) =>
                \A v \in VersionsIn(tags[i]) \cap VersionsIn(tags[j]) :
                    releases[v] = tags[j]

\* the run made the membership check and the version is no key of the map
CheckFailed ==
    "version_check" \in Range(trace) /\ version \notin DOMAIN releases

\* C13: when the requested version is no key of the release map the run
\* exits with a non-zero status at that test: no repository is checked out,
\* at the tag of another version or at all, no strings are extracted and no
\* artifact is written.
C13_MissingVersionEndsRun ==
    CheckFailed =>
        /\ exit_code = 1
        /\ trace[Len(trace)] = "version_check"
        /\ tree = StaleTrees
        /\ string_list = EmptyTable
        /\ stats = EmptyDir

\* the map has releases, but not the one asked for
C13_Witness ==
    /\ CheckFailed
    /\ version = V147
    /\ DOMAIN releases = {V1_0, V2}
    /\ exit_code = 1

\* C14: a checkout command that exits non-zero makes update_git_repository
\* raise RuntimeError and the run exit with status 1; the strings are
\* extracted and the artifact is written only from trees that were checked
\* out at the tag of the version and at the l10n revision.
C14_FailedCheckoutEndsRun ==
    /\ (last.op = "setup_repositories"
          /\ \E i \in 1..Len(last.checkouts) : last.checkouts[i] # 0) =>
            /\ raised = "RuntimeError"
            /\ exit_code = 1
            /\ pc = "failed"
    /\ ("extract_string_list" \in Range(trace)
          \/ "store_completion" \in Range(trace)
          \/ stats # EmptyDir) =>
            /\ version \in DOMAIN releases
            /\ tree = [source |-> releases[version], l10n |-> L10nChangeset]

\* the source tree was checked out, the checkout of the l10n tree failed
C14_Witness ==
    /\ last.op = "setup_repositories"
    /\ last.checkouts = <<0, 1>>
    /\ tree.source = Tag_1_0
    /\ tree.l10n = Stale
    /\ exit_code = 1
    /\ trace[Len(trace)] = "setup_repositories"

\* the steps of a run
RunSteps ==
    << "read_config", "get_firefox_releases", "version_check",
       "setup_repositories", "extract_string_list", "store_completion" >>

\* C20: the steps of a run are taken in the order read_config,
\* get_firefox_releases, version check, setup_repositories,
\* extract_string_list, store_completion, each at most once and only while no
\* earlier step has failed; a step that fails ends the run with status 1.
C20_StepsInOrder ==
    /\ [](/\ Len(trace) <= Len(RunSteps)
          /\ trace = SubSeq(RunSteps, 1, Len(trace))
          /\ raised # "none" => exit_code = 1
          /\ exit_code = 1 => pc = "failed" /\ raised # "none"
          /\ stats # EmptyDir => trace = RunSteps /\ exit_code = 0)
    /\ [][raised = "none" /\ exit_code = Running]_vars

\* a run that went through all the steps and wrote the artifact
C20_Witness ==
    /\ trace = RunSteps
    /\ exit_code = 0
    /\ stats # EmptyDir

\* the locales of the configurations the last extractStringList call read
ConfiguredLocales ==
    UNION {Range(last.configs[i].locales) : i \in 1..Len(last.configs)}

\* C12: the locale list extractStringList returns is the union of the locale
\* lists of the configurations it read, and the completion written has a
\* ratio for every locale a configuration lists.
C12_ReturnedLocalesAreUnion ==
    /\ (last.op = "extractStringList" /\ raised = "none") =>
           Range(last.locales) = ConfiguredLocales
    /\ (last.op = "write" /\ pc = "stored") =>
           \A n \in DOMAIN stats : ConfiguredLocales \subseteq DOMAIN stats[n]

\* C15: a failed update of the repository ends the run of fenix_stats.main:
\* no strings are extracted and no artifact is written from the tree that was
\* not updated.
C15_FailedUpdateIsFatal ==
    ("updateRepository" \in Range(trace) /\ tree.source = Stale) =>
        /\ exit_code = 1
        /\ trace[Len(trace)] = "updateRepository"
        /\ string_list = EmptyTable
        /\ stats = EmptyDir

\* the file name <product>_<group>_<group>....json
NameOf(product, parts) ==
    LET RECURSIVE Under(_)
        Under(ps) == IF ps = <<>> THEN <<>>
                     ELSE <<"_">> \o Head(ps) \o Under(Tail(ps))
    IN  product \o Under(parts) \o <<".", "j", "s", "o", "n">>

\* C19: get_version_from_filename maps <product>_<major>_<minor>....json to
\* (the numeric groups joined by dots, the first group), and read on the
\* name store_completion writes for product firefox or fenix and a dotted
\* numeric version v it returns (v, first group of v).
C19_NameRoundTrip ==
    last.op = "get_version_from_filename" =>
        /\ raised = "none"
        /\ \E product \in {<<"f", "i", "r", "e", "f", "o", "x">>,
                           <<"f", "e", "n", "i", "x">>} :
           \E parts \in SeqsUpTo(NumericGroups, MaxParts) \ {<<>>} :
              /\ last.filename = NameOf(product, parts)
              /\ last.result[1] = version
              /\ last.result[1] = DotJoin(parts)
              /\ last.result[2] = parts[1]

\* fenix_100_1_2.json is read as ("100.1.2", "100")
C19_Witness ==
    /\ last.op = "get_version_from_filename"
    /\ last.filename = <<"f", "e", "n", "i", "x", "_", "1", "0", "0", "_",
                         "1", "_", "2", ".", "j", "s", "o", "n">>
    /\ last.result = << <<"1", "0", "0", ".", "1", ".", "2">>,
                        <<"1", "0", "0">> >>

\* C30: a parse_file call for file key k and locale l changes only the list
\* at table[k][l], creating k and l when absent: every other file key and
\* every other locale under k keep their lists, and the identifiers the list
\* held stay at its front in their order, whether the parse succeeds or not.
C30_ParseFileFrame ==
    [][ (last'.op = "parse_file" /\ calls' = calls + 1) =>
          LET k == last'.rel_file
              l == last'.locale
              old == ListAt(string_list, k, l)
              new == ListAt(string_list', k, l)
          IN  /\ DOMAIN string_list' = DOMAIN string_list \cup {k}
              /\ \A k2 \in DOMAIN string_list \ {k} :
                     string_list'[k2] = string_list[k2]
              /\ HasLocale(string_list'[k], l)
              /\ \A l2 \in Locales \ {l} :
                     /\ HasLocale(string_list'[k], l2)
                          = (k \in DOMAIN string_list
                               /\ HasLocale(string_list[k], l2))
                     /\ ListAt(string_list', k, l2) = ListAt(string_list, k, l2)
              /\ Len(old) <= Len(new)
              /\ SubSeq(new, 1, Len(old)) = old ]_vars

\* a call for a locale added to its list under a file key that already held
\* the list of the reference
C30_Witness ==
    /\ ParseCalled /\ calls = 2
    /\ last.locale = "it"
    /\ Len(LastList) > 0
    /\ Len(GetIds(string_list[last.rel_file], "source")) = 2


-----------------------------------------------------------------------------
(* Config *)

Trimmed(text) == Strip(text, Whitespace)

Ignored(line) == Trimmed(line) = <<>> \/ Trimmed(line)[1] = "#"

HasEquals(line) == \E i \in 1..Len(line) : line[i] = "="

FirstEquals(line) ==
    CHOOSE i \in 1..Len(line) :
        line[i] = "=" /\ \A j \in 1..(i - 1) : line[j] # "="

KeyText(line) == Trimmed(SubSeq(line, 1, FirstEquals(line) - 1))

ValueText(line) ==
    Strip(Trimmed(SubSeq(line, FirstEquals(line) + 1, Len(line))), Quotes)

Rejected(line) ==
    ~Ignored(line) /\ (~HasEquals(line) \/ KeyText(line) = <<>>)

\* the lines of a file that hold an entry
EntryLines(file) == {i \in 1..Len(file.lines) : ~Ignored(file.lines[i])}

\* C22: a Config cannot be constructed (ConfigError) exactly when the file
\* is missing or one of its lines, neither blank nor a comment, has no "="
\* or nothing but whitespace before its first "="; otherwise its keys are
\* the texts before the first "=" of the lines that are neither blank nor
\* comments, and the value of a key is the text after the first "=" of the
\* last such line, without surrounding whitespace and then without
\* surrounding quote characters
C22_LoadedPaths ==
    last.op = "Config" =>
        LET file == last.file
            broken == \/ ~file.exists
                      \/ \E i \in 1..Len(file.lines) : Rejected(file.lines[i])
        IN  /\ (last.exc = "ConfigError") <=> broken
            /\ ~broken =>
                 /\ last.exc = "none"
                 /\ DOMAIN last.paths =
                        {KeyText(file.lines[i]) : i \in EntryLines(file)}
                 /\ \A i \in EntryLines(file) :
                        (\A j \in EntryLines(file) :
                            j > i => KeyText(file.lines[j]) # KeyText(file.lines[i]))
                        => last.paths[KeyText(file.lines[i])]
                               = ValueText(file.lines[i])

\* a file with a comment and a quoted value padded with whitespace is loaded
C22_Witness ==
    /\ last.op = "Config"
    /\ last.exc = "none"
    /\ last.file.lines = <<LineComment, Line_k_y>>
    /\ last.paths[Key_k] = <<"/", "y">>

\* C23: get returns the stored value of a key, raises ConfigError for an
\* absent key and, with validate, for a value that is not an existing path,
\* and changes nothing in the configuration; get_multiple returns the
\* values in the order of the keys and raises ConfigError when a key is
\* missing
C23_GetReturnsStored ==
    /\ last.op = "get" =>
         LET paths == last.before.instance.paths
             absent == last.key \notin DOMAIN paths
             invalid == /\ ~absent
                        /\ last.validate
                        /\ paths[last.key] \notin ExistingPaths
         IN  /\ _config = last.before
             /\ (last.exc = "ConfigError") <=> (absent \/ invalid)
             /\ ~(absent \/ invalid) =>
                  last.exc = "none" /\ last.value = paths[last.key]
    /\ last.op = "get_multiple" =>
         LET paths == last.before.instance.paths
             keys == last.keys
         IN  /\ _config = last.before
             /\ (\E i \in 1..Len(keys) : keys[i] \notin DOMAIN paths)
                    => last.exc = "ConfigError"
             /\ last.exc = "none" =>
                  /\ Len(last.values) = Len(keys)
                  /\ \A i \in 1..Len(keys) : last.values[i] = paths[keys[i]]
             /\ last.exc = "ConfigError" =>
                  \E i \in 1..Len(keys) :
                      \/ keys[i] \notin DOMAIN paths
                      \/ last.validate /\ paths[keys[i]] \notin ExistingPaths

\* two values are returned in the order asked for, which is not the order of
\* the file, one of them a path that does not exist
C23_Witness ==
    /\ last.op = "get_multiple"
    /\ last.keys = <<Key_p, Key_k>>
    /\ ~last.validate
    /\ last.exc = "none"
    /\ last.values = << <<"/", "x">>, <<"/", "y">> >>
    /\ last.before.file.lines = <<Line_k_y, Line_p_x>>

\* C29: once get_config has stored an instance, no step replaces it or
\* reads the file again, whatever happens to the file; a get_config whose
\* load raises ConfigError has read the file and stores no instance
C29_LoadedOnce ==
    [][ /\ _config.instance.loaded =>
             /\ _config'.instance = _config.instance
             /\ _config'.reads = _config.reads
        /\ (last'.op = "get_config" /\ ~_config.instance.loaded) =>
             /\ _config'.reads = _config.reads + 1
             /\ raised' = "ConfigError" =>
                  /\ ~_config'.instance.loaded
             /\ raised' = "none" =>
                  /\ _config'.instance.loaded
                  /\ _config'.instance.paths = Load(_config.file).paths ]_vars

\* get_config is called with an instance stored, after the file it was
\* loaded from has been removed
C29_Witness ==
    /\ last.op = "get_config"
    /\ last.exc = "none"
    /\ last.before.instance.loaded
    /\ ~_config.file.exists
    /\ _config.reads = 1
    /\ DOMAIN _config.instance.paths = {Key_k}
    /\ _config.instance.paths[Key_k] = <<"/", "x">>


\* the file cannot be loaded, lacks one of the keys, or gives one of them a
\* value that is not an existing path
ConfigBroken(file, params) ==
    \/ ~file.exists
    \/ \E i \in 1..Len(file.lines) : Rejected(file.lines[i])
    \/ \E n \in 1..Len(params) :
          \/ \A i \in EntryLines(file) : KeyText(file.lines[i]) # params[n]
          \/ \E i \in EntryLines(file) :
                /\ KeyText(file.lines[i]) = params[n]
                /\ \A j \in EntryLines(file) :
                      j > i => KeyText(file.lines[j]) # params[n]
                /\ ValueText(file.lines[i]) \notin ExistingPaths

\* C21: a run whose configuration is missing, lacks a key or names a path
\* that does not exist ends at read_config with exit status 1: no tag is
\* listed, no repository is checked out and no artifact is written
C21_ConfigErrorEndsRun ==
    (trace # <<>> /\ ConfigBroken(_config.file, ConfigParams)) =>
        /\ exit_code = 1
        /\ pc = "failed"
        /\ raised = "SystemExit"
        /\ trace = <<"read_config">>
        /\ releases = EmptyMap
        /\ tree = StaleTrees
        /\ stats = EmptyDir

\* a run has stopped on a configuration whose second path does not exist,
\* with tags in the repository
C21_Witness ==
    /\ trace = <<"read_config">>
    /\ exit_code = 1
    /\ _config.file = File(<<Line_k_y, Line_p_x>>)
    /\ tags # <<>>


-----------------------------------------------------------------------------
(* csv_extract_product and build_chart_json *)

\* the versions a product has an artifact for in the stats directory
Persisted(product) ==
    {v \in ArtifactVersions[product] : OutputFile(product, v) \in DOMAIN stats}

\* the value an artifact holds for a locale
ValueIn(product, v, locale) ==
    LET items == stats[OutputFile(product, v)]
    IN  items[CHOOSE n \in 1..Len(items) : items[n].locale = locale].value

LocalesIn(product, v) ==
    LET items == stats[OutputFile(product, v)]
    IN  {items[n].locale : n \in 1..Len(items)}

MajorInt(v) == IntOf(MajorOf(v))

CsvWritten ==
    /\ last.op = "csv_extract_product"
    /\ CsvName(last.product) \in DOMAIN stats

\* C24: the CSV holds exactly one row for each major version the product
\* has a persisted artifact for, the rows in ascending numeric order of the
\* major version, under the columns Version, Major version and the locales
\* of the artifacts in sorted order
C24_RowPerMajor ==
    CsvWritten =>
        LET csv == stats[CsvName(last.product)]
            rows == csv.rows
            majors == {MajorInt(v) : v \in Persisted(last.product)}
            locales == UNION {LocalesIn(last.product, v) :
                                 v \in Persisted(last.product)}
            columns == SubSeq(csv.fieldnames, 3, Len(csv.fieldnames))
        IN  /\ {rows[n].Major : n \in 1..Len(rows)} = majors
            /\ Len(rows) = Cardinality(majors)
            /\ \A n \in 1..(Len(rows) - 1) : rows[n].Major < rows[n + 1].Major
            /\ Len(csv.fieldnames) >= 2
            /\ SubSeq(csv.fieldnames, 1, 2) = <<"Version", "Major version">>
            /\ Range(columns) = locales
            /\ \A n \in 1..(Len(columns) - 1) :
                  LexLess(LocaleChars(columns[n]), LocaleChars(columns[n + 1]))

\* C27: every row of the CSV is one artifact: its Version cell is the
\* version of a persisted artifact of the product and its locale cells are
\* the ratios of that artifact
C27_RowFromOneArtifact ==
    CsvWritten =>
        LET rows == stats[CsvName(last.product)].rows
        IN  \A n \in 1..Len(rows) :
               \E v \in Persisted(last.product) :
                  /\ rows[n].Version = <<"'">> \o v
                  /\ DOMAIN rows[n].cells = LocalesIn(last.product, v)
                  /\ \A l \in LocalesIn(last.product, v) :
                        rows[n].cells[l] = ValueIn(last.product, v, l)

ChartWritten ==
    /\ last.op = "build_chart_json"
    /\ raised = "none"
    /\ DataJson \in DOMAIN docs

InWindow(major) ==
    /\ MajorInt(version) - max_versions < major
    /\ major <= MajorInt(version)

\* C25: the chart data holds, for each product, only major versions M with
\* major(V) - 30 < M <= major(V); it holds every (locale, major) pair of a
\* persisted artifact of the product whose major version is in that window;
\* and the name of a locale is its display name, or its code when it has
\* none
C25_ChartWindow ==
    ChartWritten =>
        LET data == docs[DataJson]
        IN  /\ \A l \in DOMAIN data : \A p \in DOMAIN data[l].products :
                  \A m \in DOMAIN data[l].products[p] :
                      /\ IsInt(m)
                      /\ InWindow(IntOf(m))
                      /\ \E v \in Persisted(p) :
                            MajorOf(v) = m /\ l \in LocalesIn(p, v)
            /\ \A p \in Products : \A v \in Persisted(p) :
                  InWindow(MajorInt(v)) =>
                      \A l \in LocalesIn(p, v) :
                          /\ l \in DOMAIN data
                          /\ p \in DOMAIN data[l].products
                          /\ MajorOf(v) \in DOMAIN data[l].products[p]
            /\ \A l \in DOMAIN data :
                  data[l].name = IF l \in DOMAIN last.names
                                 THEN last.names[l] ELSE l

\* the chart is built from an artifact at the old end of the window and one
\* just outside it, for a locale with a display name and one without
C25_Witness ==
    /\ ChartWritten
    /\ Persisted(Firefox) = {V117_0, V118_0}
    /\ LocalesIn(Firefox, V117_0) = {"it", "fr"}
    /\ LocalesIn(Firefox, V118_0) = {"it", "fr"}
    /\ last.names = "it" :> "Italian"
    /\ docs[DataJson]["fr"].name = "fr"
    /\ docs[DataJson]["it"].name = "Italian"
    /\ DOMAIN docs[DataJson]["fr"].products[Firefox] = {<<"1", "1", "8">>}

\* the numeric groups of a version
Groups(v) == LET parts == Split(v, ".") IN [n \in 1..Len(parts) |-> IntOf(parts[n])]

\* a is a lower version than b, group by group as numbers
VersionLess(a, b) ==
    LET ga == Groups(a)  gb == Groups(b)
    IN  \E i \in 1..(Min({Len(ga), Len(gb)}) + 1) :
           /\ \A j \in 1..(i - 1) : ga[j] = gb[j]
           /\ i <= Len(gb)
           /\ i > Len(ga) \/ ga[i] < gb[i]

\* C28: the value the chart holds for (locale, product, major) is the value
\* of the highest version, compared group by group as numbers, among the
\* persisted artifacts of the product with that major version that hold the
\* locale
C28_HighestVersionWins ==
    ChartWritten =>
        LET data == docs[DataJson]
        IN  \A l \in DOMAIN data : \A p \in DOMAIN data[l].products :
               \A m \in DOMAIN data[l].products[p] :
                  LET holding == {v \in Persisted(p) :
                                     MajorOf(v) = m /\ l \in LocalesIn(p, v)}
                      highest == CHOOSE v \in holding :
                                     \A w \in holding \ {v} : VersionLess(w, v)
                  IN  data[l].products[p][m] = ValueIn(p, highest, l)


-----------------------------------------------------------------------------
(* compute_localization_completion *)

\* the number of distinct ids of a locale under the file keys, of those that
\* are reference ids when valid
RECURSIVE Distinct(_, _, _)
Distinct(keys, locale, valid) ==
    IF keys = {} THEN 0
    ELSE LET k == CHOOSE k \in keys : TRUE
             ids == Range(GetIds(string_list[k], locale))
             ref == Range(GetIds(string_list[k], RefLocale))
         IN  Cardinality(IF valid THEN ids \cap ref ELSE ids)
                 + Distinct(keys \ {k}, locale, valid)

=============================================================================
